---- MODULE Spec2Model ----
(***************************************************************************)
(* Layout engine of docker-graph/compose-parser: ParseToReactFlow turns a  *)
(* decoded compose project (services, networks, volumes) into positioned   *)
(* nodes and edges.  Two implementations are in the sources: the           *)
(* step-by-step pipeline (unnamed/part_001) and the single-function        *)
(* version (unnamed/part_000, lines 2476-3103).  Both are modelled.        *)
(* CreatedAt (time.Now) is left out of the graph value.                    *)
(***************************************************************************)
EXTENDS Integers, Sequences, FiniteSets, TLC

VARIABLES project, options, graph, graphInline, err, errInline,
          document, parsed, parseErr, sortedServices, sortedVolumes,
          viewNodes, viewportOut

\* The layout, the decoder, the ordering resolver on its own and the
\* viewport calculator on its own.
layoutVars == <<project, options, graph, graphInline, err, errInline>>

parseVars == <<document, parsed, parseErr>>

sortVars == <<sortedServices, sortedVolumes>>

viewVars == <<viewNodes, viewportOut>>

vars == <<layoutVars, parseVars, sortVars, viewVars>>

(***************************************************************************)
(* Bounds of the model and the pools the inputs are drawn from.            *)
(***************************************************************************)
MaxOrder == 1

MaxRefs == 2

\* Names, listed in ascending byte order (Go compares strings bytewise).
NamePool == <<"a", "b">>

Names == {NamePool[i] : i \in 1..Len(NamePool)}

\* Go's  a < b  on two names of the pool.
StrLess(a, b) ==
    \E i, j \in 1..Len(NamePool) : NamePool[i] = a /\ NamePool[j] = b /\ i < j

(***************************************************************************)
(* Helpers standing for Go built-ins.                                      *)
(***************************************************************************)
\* Go's integer division truncates toward zero.
Quot(a, b) ==
    IF (a >= 0) = (b > 0) THEN a \div b ELSE -((-a) \div b)

Keys(m) == DOMAIN m

HasKey(m, k) == k \in DOMAIN m

\* The orders in which a range over a map with key set S may visit the keys.
IterationOrders(S) ==
    {p \in [1..Cardinality(S) -> S] : \A i, j \in 1..Cardinality(S) : p[i] = p[j] => i = j}

\* A slip: the scan runs to the end of the sequence, so that the last
\* occurrence of a name gives its index.
RECURSIVE IndexScanToEnd(_, _, _, _, _, _)
IndexScanToEnd(seq, k, ni, nj, idxI, idxJ) ==
    IF k > Len(seq) THEN <<idxI, idxJ>>
    ELSE IndexScanToEnd(seq, k + 1, ni, nj,
                        IF seq[k] = ni THEN k - 1 ELSE idxI,
                        IF seq[k] = nj THEN k - 1 ELSE idxJ)

\* The index scan of the sort comparators: k runs over the declared sequence,
\* a match overwrites the index, the scan stops once both are found.
RECURSIVE IndexScan(_, _, _, _, _, _)
IndexScan(seq, k, ni, nj, idxI, idxJ) ==
    IF k > Len(seq) THEN <<idxI, idxJ>>
    ELSE LET i2 == IF seq[k] = ni THEN k - 1 ELSE idxI
             j2 == IF seq[k] = nj THEN k - 1 ELSE idxJ
         IN IF i2 # -1 /\ j2 # -1 THEN <<i2, j2>>
            ELSE IndexScan(seq, k + 1, ni, nj, i2, j2)

\* A slip: the Order fields are compared the wrong way round.
OrderLessDescending(x, y, declared) ==
    IF x.order = 0 /\ y.order = 0
    THEN LET idx == IndexScan(declared, 1, x.name, y.name, -1, -1)
         IN IF idx[1] # -1 /\ idx[2] # -1 THEN idx[1] < idx[2]
            ELSE IF idx[1] = -1 THEN FALSE
            ELSE TRUE
    ELSE x.order > y.order

\* less(i, j) of getSortedServices / getSortedVolumes: x and y are
\* [name, order] items, declared is ServiceOrder or VolumeOrder.
OrderLess(x, y, declared) ==
    IF x.order = 0 /\ y.order = 0
    THEN LET idx == IndexScan(declared, 1, x.name, y.name, -1, -1)
         IN IF idx[1] # -1 /\ idx[2] # -1 THEN idx[1] < idx[2]
            ELSE IF idx[1] = -1 THEN FALSE
            ELSE TRUE
    ELSE x.order < y.order

\* less(i, j) of getSortedNetworks.
NameLess(x, y, declared) == StrLess(x.name, y.name)

\* less(i, j) of the used-volume sort.
TargetYLess(x, y, declared) == x.targetY < y.targetY

Less(cmp, x, y, declared) ==
    CASE cmp = "order" -> OrderLess(x, y, declared)
      [] cmp = "name" -> NameLess(x, y, declared)
      [] cmp = "targetY" -> TargetYLess(x, y, declared)

\* sort.Slice on a slice of at most 12 elements is an insertion sort:
\* element i is swapped down while it is less than its predecessor.
RECURSIVE SinkDown(_, _, _, _)
SinkDown(s, j, cmp, declared) ==
    IF j > 1 /\ Less(cmp, s[j], s[j - 1], declared)
    THEN SinkDown([s EXCEPT ![j] = s[j - 1], ![j - 1] = s[j]], j - 1, cmp, declared)
    ELSE s

RECURSIVE InsertionSortFrom(_, _, _, _)
InsertionSortFrom(s, i, cmp, declared) ==
    IF i > Len(s) THEN s
    ELSE InsertionSortFrom(SinkDown(s, i, cmp, declared), i + 1, cmp, declared)

SortSlice(s, cmp, declared) == InsertionSortFrom(s, 2, cmp, declared)

(***************************************************************************)
(* Ordering resolver.  iter is the order in which the range over the map   *)
(* visits its keys.                                                        *)
(***************************************************************************)
getSortedNetworks(networks, iter) ==
    SortSlice([i \in 1..Len(iter) |-> [name |-> iter[i]]], "name", <<>>)

getSortedServices(services, serviceOrder, iter) ==
    SortSlice([i \in 1..Len(iter) |-> [name |-> iter[i], order |-> services[iter[i]].Order]],
              "order", serviceOrder)

getSortedVolumes(volumes, volumeOrder, iter) ==
    SortSlice([i \in 1..Len(iter) |-> [name |-> iter[i], order |-> volumes[iter[i]].Order]],
              "order", volumeOrder)

\* Every list a call can return, over the iteration orders of the map.
SortedNetworkLists(p) ==
    {getSortedNetworks(p.Networks, it) : it \in IterationOrders(Keys(p.Networks))}

SortedServiceLists(p) ==
    {getSortedServices(p.Services, p.ServiceOrder, it) : it \in IterationOrders(Keys(p.Services))}

SortedVolumeLists(p) ==
    {getSortedVolumes(p.Volumes, p.VolumeOrder, it) : it \in IterationOrders(Keys(p.Volumes))}

(***************************************************************************)
(* Options and dimensions.                                                 *)
(***************************************************************************)
NilOptions == [nil |-> TRUE]

DefaultOptions ==
    [Direction |-> "LR", NodeWidth |-> 240, NodeHeight |-> 120, NodeGapX |-> 100,
     NodeGapY |-> 50, Padding |-> 50, ColumnGap |-> 440, ColumnTopGap |-> 120,
     DockerComposeStart |-> -350, VolumeXOffset |-> 300, VolumeYOffset |-> 180,
     LastY |-> -1000]

\* The zero value of GraphLayoutOptions: &GraphLayoutOptions{}.
ZeroOptions ==
    [Direction |-> "", NodeWidth |-> 0, NodeHeight |-> 0, NodeGapX |-> 0,
     NodeGapY |-> 0, Padding |-> 0, ColumnGap |-> 0, ColumnTopGap |-> 0,
     DockerComposeStart |-> 0, VolumeXOffset |-> 0, VolumeYOffset |-> 0,
     LastY |-> 0]

initDefaultOptions(o) == IF "nil" \in DOMAIN o THEN DefaultOptions ELSE o

\* A slip: the network column is not centered, it starts level with the
\* service column.
calculateGraphDimensionsTopAligned(p, o) ==
    LET serviceCount == Cardinality(Keys(p.Services))
        volumeCount == Cardinality(Keys(p.Volumes))
        networkCount == Cardinality(Keys(p.Networks))
        dockerComposeX == 0
        dockerComposeY == Quot(serviceCount * o.NodeHeight, 2) - 10
        sh == serviceCount * o.NodeHeight
        serviceHeight == IF sh < o.NodeWidth THEN o.NodeWidth ELSE sh
        nh == networkCount * o.NodeHeight
        networkHeight == IF nh < o.NodeHeight THEN o.NodeHeight ELSE nh
        serviceBaseY == o.Padding
    IN [ServiceCount |-> serviceCount, VolumeCount |-> volumeCount,
        NetworkCount |-> networkCount, DockerComposeX |-> dockerComposeX,
        DockerComposeY |-> dockerComposeY, ServiceHeight |-> serviceHeight,
        NetworkHeight |-> networkHeight, ServiceBaseY |-> serviceBaseY,
        NetworkStartY |-> serviceBaseY,
        ServiceStartX |-> dockerComposeX + o.ColumnGap,
        ServiceStartY |-> o.Padding, VolumeYOffset |-> o.VolumeYOffset,
        UnusedVolumeStartY |-> dockerComposeY + o.VolumeYOffset]

calculateGraphDimensions(p, o) ==
    LET serviceCount == Cardinality(Keys(p.Services))
        volumeCount == Cardinality(Keys(p.Volumes))
        networkCount == Cardinality(Keys(p.Networks))
        dockerComposeX == 0
        dockerComposeY == Quot(serviceCount * o.NodeHeight, 2) - 10
        sh == serviceCount * o.NodeHeight
        serviceHeight == IF sh < o.NodeWidth THEN o.NodeWidth ELSE sh
        nh == networkCount * o.NodeHeight
        networkHeight == IF nh < o.NodeHeight THEN o.NodeHeight ELSE nh
        serviceBaseY == o.Padding
        networkStartY ==
            IF serviceHeight >= networkHeight
            THEN serviceBaseY + Quot(serviceHeight - networkHeight, 2)
            ELSE serviceBaseY - Quot(networkHeight - serviceHeight, 2)
    IN [ServiceCount |-> serviceCount, VolumeCount |-> volumeCount,
        NetworkCount |-> networkCount, DockerComposeX |-> dockerComposeX,
        DockerComposeY |-> dockerComposeY, ServiceHeight |-> serviceHeight,
        NetworkHeight |-> networkHeight, ServiceBaseY |-> serviceBaseY,
        NetworkStartY |-> networkStartY,
        ServiceStartX |-> dockerComposeX + o.ColumnGap,
        ServiceStartY |-> o.Padding, VolumeYOffset |-> o.VolumeYOffset,
        UnusedVolumeStartY |-> dockerComposeY + o.VolumeYOffset]

(***************************************************************************)
(* Node ids.                                                               *)
(***************************************************************************)
RootID == "docker-compose"

NetworkNodeID(name) == "network-" \o name

\* A copy-paste slip: the service id built with the network prefix.
ServiceNodeIDWithNetworkPrefix(name) == "network-" \o name

ServiceNodeID(name) == "services-" \o name

VolumeNodeID(name) == "volume-" \o name

\* The single-function version names service nodes "service-<name>".
InlineServiceNodeID(name) == "service-" \o name

(***************************************************************************)
(* Node and edge values.  A node is [ID, Type, X, Y, Label, Status,        *)
(* Opacity, Properties]; an edge is [ID, Source, Target, Type, Label,      *)
(* Animated, Dash] (Dash is style.strokeDasharray, Opacity is in percent). *)
(***************************************************************************)
Node(id, type, x, y, label, status, opacity, props) ==
    [ID |-> id, Type |-> type, X |-> x, Y |-> y, Label |-> label,
     Status |-> status, Opacity |-> opacity, Properties |-> props]

Edge(id, source, target, type, label, animated, dash) ==
    [ID |-> id, Source |-> source, Target |-> target, Type |-> type,
     Label |-> label, Animated |-> animated, Dash |-> dash]

\* m[k] of a Go map: the zero value when the key is absent.
MapGet(m, k, zero) == IF k \in DOMAIN m THEN m[k] ELSE zero

\* A slip: the mount type is not looked at.
IsVolumeMountAnyType(vm) == vm.Source # ""

\* A mount that counts as a use of a named volume.
IsVolumeMount(vm) == vm.Type = "volume" /\ vm.Source # ""

\* The (service, mount) pairs in the order the nested loops visit them.
RECURSIVE ServiceMounts(_, _, _)
ServiceMounts(p, list, i) ==
    IF i > Len(list) THEN <<>>
    ELSE LET vols == p.Services[list[i].name].Volumes
         IN [k \in 1..Len(vols) |-> [service |-> list[i].name, mount |-> vols[k]]]
            \o ServiceMounts(p, list, i + 1)

\* The (service, dependency) pairs in the order the nested loops visit them.
RECURSIVE ServiceDepends(_, _, _)
ServiceDepends(p, list, i) ==
    IF i > Len(list) THEN <<>>
    ELSE LET deps == p.Services[list[i].name].DependsOn
         IN [k \in 1..Len(deps) |-> [service |-> list[i].name, dependsOn |-> deps[k]]]
            \o ServiceDepends(p, list, i + 1)

(***************************************************************************)
(* Node factories of the pipeline (part_001).                              *)
(***************************************************************************)
\* A slip: the network and the volume count change places.
createDockerComposeNodeCountsSwapped(p, o, dim) ==
    Node(RootID, "compose", o.DockerComposeStart, dim.DockerComposeY, p.Name, "", 100,
         [services |-> dim.ServiceCount, networks |-> dim.VolumeCount,
          volumes |-> dim.NetworkCount, version |-> p.Version])

createDockerComposeNode(p, o, dim) ==
    Node(RootID, "compose", o.DockerComposeStart, dim.DockerComposeY, p.Name, "", 100,
         [services |-> dim.ServiceCount, networks |-> dim.NetworkCount,
          volumes |-> dim.VolumeCount, version |-> p.Version])

\* A slip: the networks are spaced by the node height like a column of nodes.
createNetworkNodesByNodeHeight(p, o, dim, networksList) ==
    [nodes |->
        [i \in 1..Len(networksList) |->
            Node(NetworkNodeID(networksList[i].name), "network",
                 dim.DockerComposeX + 20, dim.NetworkStartY + (i - 1) * o.NodeHeight,
                 networksList[i].name, "", 100,
                 [driver |-> p.Networks[networksList[i].name].Driver])],
     networkNodes |-> [n \in {networksList[i].name : i \in 1..Len(networksList)} |-> NetworkNodeID(n)]]

createNetworkNodes(p, o, dim, networksList) ==
    [nodes |->
        [i \in 1..Len(networksList) |->
            Node(NetworkNodeID(networksList[i].name), "network",
                 dim.DockerComposeX + 20, dim.NetworkStartY + (i - 1) * 120,
                 networksList[i].name, "", 100,
                 [driver |-> p.Networks[networksList[i].name].Driver])],
     networkNodes |-> [n \in {networksList[i].name : i \in 1..Len(networksList)} |-> NetworkNodeID(n)]]

\* A slip: the index is advanced before it is used, the column starts one
\* step down.
createServiceNodesFromOne(p, o, dim, servicesList) ==
    [nodes |->
        [i \in 1..Len(servicesList) |->
            LET name == servicesList[i].name
                service == p.Services[name]
            IN Node(ServiceNodeID(name), "services",
                    dim.ServiceStartX, dim.ServiceStartY + i * o.ColumnTopGap,
                    name, "saved", 100,
                    [volumes |-> Len(service.Volumes), depends_on |-> Len(service.DependsOn),
                     networks |-> Len(service.Networks), order |-> service.Order])],
     serviceMap |-> [n \in {servicesList[i].name : i \in 1..Len(servicesList)} |-> ServiceNodeID(n)]]

createServiceNodes(p, o, dim, servicesList) ==
    [nodes |->
        [i \in 1..Len(servicesList) |->
            LET name == servicesList[i].name
                service == p.Services[name]
            IN Node(ServiceNodeID(name), "services",
                    dim.ServiceStartX, dim.ServiceStartY + (i - 1) * o.ColumnTopGap,
                    name, "saved", 100,
                    [volumes |-> Len(service.Volumes), depends_on |-> Len(service.DependsOn),
                     networks |-> Len(service.Networks), order |-> service.Order])],
     serviceMap |-> [n \in {servicesList[i].name : i \in 1..Len(servicesList)} |-> ServiceNodeID(n)]]

(***************************************************************************)
(* network -> service edges and the root -> service fallback (part_001).   *)
(***************************************************************************)
\* A slip: the fallback edge is added whether or not a network edge was.
NeedsFallbackAlways(hasNetworkConnections) == TRUE

\* A slip: the negation is lost, the fallback goes to the connected services.
NeedsFallbackInverted(hasNetworkConnections) == hasNetworkConnections

\* if !hasNetworkConnections: the guard of the root -> service fallback edge.
NeedsFallback(hasNetworkConnections) == ~hasNetworkConnections

\* The inner loop over service.Networks: st is [edges, counter, has].
RECURSIVE NetworkEdgesOfService(_, _, _, _, _, _)
NetworkEdgesOfService(nets, k, serviceName, nodeID, networkNodeMap, st) ==
    IF k > Len(nets) THEN st
    ELSE NetworkEdgesOfService(nets, k + 1, serviceName, nodeID, networkNodeMap,
            IF HasKey(networkNodeMap, nets[k])
            THEN [edges |-> Append(st.edges,
                      Edge("edge-network-services-" \o nets[k] \o "-" \o serviceName,
                           networkNodeMap[nets[k]], nodeID, "smoothstep", nets[k], FALSE, "")),
                  counter |-> st.counter + 1, has |-> TRUE]
            ELSE st)

RECURSIVE NetworkToServiceEdgesFrom(_, _, _, _, _)
NetworkToServiceEdgesFrom(p, servicesList, i, networkNodeMap, st) ==
    IF i > Len(servicesList) THEN st.edges
    ELSE LET serviceName == servicesList[i].name
             nodeID == ServiceNodeID(serviceName)
             in == NetworkEdgesOfService(p.Services[serviceName].Networks, 1, serviceName,
                        nodeID, networkNodeMap,
                        [edges |-> st.edges, counter |-> st.counter, has |-> FALSE])
         IN NetworkToServiceEdgesFrom(p, servicesList, i + 1, networkNodeMap,
                IF NeedsFallback(in.has)
                THEN [edges |-> Append(in.edges,
                          Edge("edge-compose-services-" \o ToString(in.counter + 1),
                               RootID, nodeID, "smoothstep", "", FALSE, "5,5")),
                      counter |-> in.counter + 1]
                ELSE [edges |-> in.edges, counter |-> in.counter])

createNetworkToServiceEdges(p, servicesList, networkNodeMap) ==
    NetworkToServiceEdgesFrom(p, servicesList, 1, networkNodeMap,
                              [edges |-> <<>>, counter |-> 0])

(***************************************************************************)
(* Volume usage and volume nodes (part_001).                               *)
(***************************************************************************)
\* volumeUsage: mount source -> names of the mounting services, one entry
\* per mount, in the order of the loops; servicePositions: label -> position.
collectVolumeUsage(p, serviceNodes, servicesList) ==
    LET refs == ServiceMounts(p, servicesList, 1)
        Uses(r) == IsVolumeMount(r.mount)
        used == SelectSeq(refs, Uses)
        sources == {used[k].mount.Source : k \in 1..Len(used)}
        UsersOf(v) ==
            LET OfV(r) == r.mount.Source = v
                sel == SelectSeq(used, OfV)
            IN [k \in 1..Len(sel) |-> sel[k].service]
    IN [volumeUsage |-> [v \in sources |-> UsersOf(v)],
        servicePositions |->
            [l \in {serviceNodes[k].Label : k \in 1..Len(serviceNodes)} |->
                LET n == CHOOSE k \in 1..Len(serviceNodes) :
                            /\ serviceNodes[k].Label = l
                            /\ \A k2 \in (k + 1)..Len(serviceNodes) : serviceNodes[k2].Label # l
                IN [X |-> serviceNodes[n].X, Y |-> serviceNodes[n].Y]]]

RECURSIVE SumOver(_, _, _, _)
SumOver(serviceNames, k, positions, axis) ==
    IF k > Len(serviceNames) THEN 0
    ELSE (IF HasKey(positions, serviceNames[k])
          THEN (IF axis = "X" THEN positions[serviceNames[k]].X ELSE positions[serviceNames[k]].Y)
          ELSE 0)
         + SumOver(serviceNames, k + 1, positions, axis)

CountOver(serviceNames, positions) ==
    Cardinality({k \in 1..Len(serviceNames) : HasKey(positions, serviceNames[k])})

\* volumeServiceX / volumeServiceY: the truncated mean, set only when count > 0.
MeanOver(serviceNames, positions, axis) ==
    IF CountOver(serviceNames, positions) > 0
    THEN Quot(SumOver(serviceNames, 1, positions, axis), CountOver(serviceNames, positions))
    ELSE 0

\* A slip: the lower bound is not applied, the volume sits at its target Y.
PlacedYUnbounded(i, desiredY, lastY, o) == desiredY

\* A slip: the first used volume is bounded like the later ones, by lastY,
\* which is then the option LastY.
PlacedYFromLastY(i, desiredY, lastY, o) ==
    IF desiredY < lastY + o.ColumnTopGap THEN lastY + o.ColumnTopGap ELSE desiredY

\* The Y of the i-th (from 1) used volume, lastY being the Y placed before it.
PlacedY(i, desiredY, lastY, o) ==
    IF i = 1
    THEN (IF desiredY < o.Padding THEN o.Padding ELSE desiredY)
    ELSE (IF desiredY < lastY + o.ColumnTopGap THEN lastY + o.ColumnTopGap ELSE desiredY)

\* The placement loop over the sorted used volumes: the Y of each.
RECURSIVE PlaceUsed(_, _, _, _)
PlaceUsed(usedVolumes, i, lastY, o) ==
    IF i > Len(usedVolumes) THEN <<>>
    ELSE LET y == PlacedY(i, usedVolumes[i].targetY, lastY, o)
         IN <<y>> \o PlaceUsed(usedVolumes, i + 1, y, o)

\* usedVolumes after the sort by targetY, and unusedVolumes.
PositionedVolumes(p, volumesList, volumeUsage, servicePositions) ==
    LET item(i) ==
            LET name == volumesList[i].name
                usedBy == MapGet(volumeUsage, name, <<>>)
            IN [name |-> name,
                targetY |-> MeanOver(usedBy, servicePositions, "Y"),
                serviceX |-> MeanOver(usedBy, servicePositions, "X"),
                usedBy |-> usedBy]
        all == [i \in 1..Len(volumesList) |-> item(i)]
        IsUsed(v) == HasKey(volumeUsage, v.name)
        IsUnused(v) == ~HasKey(volumeUsage, v.name)
    IN [used |-> SortSlice(SelectSeq(all, IsUsed), "targetY", <<>>),
        unused |-> SelectSeq(all, IsUnused)]

UsedVolumeNodes(p, o, usedVolumes) ==
    LET ys == PlaceUsed(usedVolumes, 1, o.LastY, o)
    IN [i \in 1..Len(usedVolumes) |->
            Node(VolumeNodeID(usedVolumes[i].name), "volume",
                 usedVolumes[i].serviceX + o.VolumeXOffset, ys[i],
                 usedVolumes[i].name, "", 100,
                 [order |-> p.Volumes[usedVolumes[i].name].Order,
                  used_by |-> usedVolumes[i].usedBy, used |-> TRUE, status |-> ""])]

\* A slip: the unused volumes are spaced by the vertical gap.
UnusedVolumeNodesByGapY(p, o, unusedVolumeStartY, unusedVolumes) ==
    [i \in 1..Len(unusedVolumes) |->
        Node(VolumeNodeID(unusedVolumes[i].name), "volume",
             o.DockerComposeStart, unusedVolumeStartY + (i - 1) * o.NodeGapY,
             unusedVolumes[i].name, "unused", 50,
             [order |-> p.Volumes[unusedVolumes[i].name].Order,
              used_by |-> unusedVolumes[i].usedBy, used |-> FALSE, status |-> "unused"])]

UnusedVolumeNodes(p, o, unusedVolumeStartY, unusedVolumes) ==
    [i \in 1..Len(unusedVolumes) |->
        Node(VolumeNodeID(unusedVolumes[i].name), "volume",
             o.DockerComposeStart, unusedVolumeStartY + (i - 1) * o.NodeGapX,
             unusedVolumes[i].name, "unused", 50,
             [order |-> p.Volumes[unusedVolumes[i].name].Order,
              used_by |-> unusedVolumes[i].usedBy, used |-> FALSE, status |-> "unused"])]

\* The root -> unused volume edge built in the loop over unusedVolumes.
UnusedVolumeEdge(name) ==
    Edge("edge-compose-unused-volume-" \o name, RootID, VolumeNodeID(name),
         "step", "unused", FALSE, "3,3")

\* The pipeline builds that edge and drops it ( _ = edge ): it returns nodes only.
createVolumeNodes(p, o, dim, volumeUsage, servicePositions, volumesList) ==
    LET pv == PositionedVolumes(p, volumesList, volumeUsage, servicePositions)
    IN UsedVolumeNodes(p, o, pv.used)
       \o UnusedVolumeNodes(p, o, dim.UnusedVolumeStartY, pv.unused)

(***************************************************************************)
(* Dependency and service -> volume edges (part_001).                      *)
(***************************************************************************)
\* A slip: the edge runs from the dependency to the dependent.
DependsEdgeReversed(edgeCounter, sourceID, targetID) ==
    Edge("edge-depends-" \o ToString(edgeCounter), targetID, sourceID, "smoothstep", "", TRUE, "")

\* The edge of one resolved depends_on entry.
DependsEdge(edgeCounter, sourceID, targetID) ==
    Edge("edge-depends-" \o ToString(edgeCounter), sourceID, targetID, "smoothstep", "", TRUE, "")

createDependsOnEdges(p, serviceMap, servicesList) ==
    LET refs == ServiceDepends(p, servicesList, 1)
        Known(r) == HasKey(serviceMap, r.dependsOn)
        sel == SelectSeq(refs, Known)
    IN [k \in 1..Len(sel) |->
            DependsEdge(k, ServiceNodeID(sel[k].service), serviceMap[sel[k].dependsOn])]

\* volumeExists of createServiceToVolumeEdges: the target id is looked up
\* among the service nodes, then the mount source among the keys of volumeUsage.
VolumeExists(source, serviceNodes, volumeUsage) ==
    \/ \E k \in 1..Len(serviceNodes) : serviceNodes[k].ID = VolumeNodeID(source)
    \/ \E volName \in Keys(volumeUsage) : volName = source

createServiceToVolumeEdges(p, serviceNodes, volumeUsage, servicesList) ==
    LET refs == ServiceMounts(p, servicesList, 1)
        Emits(r) == IsVolumeMount(r.mount) /\ VolumeExists(r.mount.Source, serviceNodes, volumeUsage)
        sel == SelectSeq(refs, Emits)
    IN [k \in 1..Len(sel) |->
            Edge("edge-services-volume-" \o ToString(k), ServiceNodeID(sel[k].service),
                 VolumeNodeID(sel[k].mount.Source), "smoothstep", "", TRUE, "")]

(***************************************************************************)
(* Viewport and assembler.                                                 *)
(***************************************************************************)
\* Zoom is 0.8, kept in tenths.
ZoomTenths == 8

RECURSIVE MinOver(_, _, _, _)
MinOver(nodes, k, axis, min) ==
    IF k > Len(nodes) THEN min
    ELSE LET v == IF axis = "X" THEN nodes[k].X ELSE nodes[k].Y
         IN MinOver(nodes, k + 1, axis, IF v < min THEN v ELSE min)

\* A slip: the padding is not taken off.
calculateViewportWithoutPadding(nodes, o) ==
    IF Len(nodes) > 0
    THEN [X |-> MinOver(nodes, 2, "X", nodes[1].X),
          Y |-> MinOver(nodes, 2, "Y", nodes[1].Y),
          Zoom |-> ZoomTenths]
    ELSE [X |-> 0, Y |-> 0, Zoom |-> ZoomTenths]

calculateViewport(nodes, o) ==
    IF Len(nodes) > 0
    THEN [X |-> MinOver(nodes, 2, "X", nodes[1].X) - o.Padding,
          Y |-> MinOver(nodes, 2, "Y", nodes[1].Y) - o.Padding,
          Zoom |-> ZoomTenths]
    ELSE [X |-> 0, Y |-> 0, Zoom |-> ZoomTenths]

buildFinalGraph(p, nodes, edges, viewport) ==
    [Nodes |-> nodes, Edges |-> edges, Project |-> p.Name, Layout |-> "custom",
     Direction |-> "LR", Viewport |-> viewport]

(***************************************************************************)
(* ParseToReactFlow of part_001.  Every getSorted* call ranges over its    *)
(* map anew: nl is the list createNetworkNodes got, s1..s5 the lists the   *)
(* five getSortedServices calls returned, vl the list createVolumeNodes    *)
(* got.                                                                    *)
(***************************************************************************)
Pipeline(p, opts, nl, s1, s2, s3, s4, s5, vl) ==
    LET o == initDefaultOptions(opts)
        dim == calculateGraphDimensions(p, o)
        dockerComposeNode == createDockerComposeNode(p, o, dim)
        net == createNetworkNodes(p, o, dim, nl)
        svc == createServiceNodes(p, o, dim, s1)
        networkEdges == createNetworkToServiceEdges(p, s2, net.networkNodes)
        use == collectVolumeUsage(p, svc.nodes, s3)
        volumeNodes == createVolumeNodes(p, o, dim, use.volumeUsage, use.servicePositions, vl)
        dependsEdges == createDependsOnEdges(p, svc.serviceMap, s4)
        serviceToVolumeEdges == createServiceToVolumeEdges(p, svc.nodes, use.volumeUsage, s5)
        allNodes == <<dockerComposeNode>> \o net.nodes \o svc.nodes \o volumeNodes
        viewport == calculateViewport(allNodes, o)
        allEdges == networkEdges \o dependsEdges \o serviceToVolumeEdges
    IN buildFinalGraph(p, allNodes, allEdges, viewport)

(***************************************************************************)
(* ParseToReactFlow of part_000: one function, one edgeCounter shared by   *)
(* all edge kinds, one sorted list per entity kind.                        *)
(***************************************************************************)
\* Loop 2: a network node and a root -> network edge per network.
InlineNetworkStage(p, o, networkStartY, networksList) ==
    [nodes |->
        [i \in 1..Len(networksList) |->
            Node(NetworkNodeID(networksList[i].name), "network",
                 0 + 20, networkStartY + (i - 1) * 120,
                 networksList[i].name, "", 100,
                 [driver |-> p.Networks[networksList[i].name].Driver])],
     edges |->
        [i \in 1..Len(networksList) |->
            Edge("edge-compose-network-" \o networksList[i].name, RootID,
                 NetworkNodeID(networksList[i].name), "step", "", FALSE, "")],
     networkNodes |-> [n \in {networksList[i].name : i \in 1..Len(networksList)} |-> NetworkNodeID(n)],
     counter |-> Len(networksList)]

InlineServiceNodes(p, o, servicesList) ==
    [i \in 1..Len(servicesList) |->
        LET name == servicesList[i].name
            service == p.Services[name]
        IN Node(InlineServiceNodeID(name), "service",
                0 + o.ColumnGap, o.Padding + (i - 1) * o.ColumnTopGap,
                name, "saved", 100,
                [volumes |-> Len(service.Volumes), depends_on |-> Len(service.DependsOn),
                 networks |-> Len(service.Networks), order |-> service.Order])]

\* Steps 4 and 5 inside the service loop: st is [edges, counter, has].
RECURSIVE InlineNetworkEdgesOfService(_, _, _, _, _, _)
InlineNetworkEdgesOfService(nets, k, serviceName, nodeID, networkNodes, st) ==
    IF k > Len(nets) THEN st
    ELSE InlineNetworkEdgesOfService(nets, k + 1, serviceName, nodeID, networkNodes,
            IF HasKey(networkNodes, nets[k])
            THEN [edges |-> Append(st.edges,
                      Edge("edge-network-service-" \o nets[k] \o "-" \o serviceName,
                           networkNodes[nets[k]], nodeID, "smoothstep", nets[k], FALSE, "")),
                  counter |-> st.counter + 1, has |-> TRUE]
            ELSE st)

RECURSIVE InlineServiceEdgesFrom(_, _, _, _, _)
InlineServiceEdgesFrom(p, servicesList, i, networkNodes, st) ==
    IF i > Len(servicesList) THEN st
    ELSE LET serviceName == servicesList[i].name
             nodeID == InlineServiceNodeID(serviceName)
             in == InlineNetworkEdgesOfService(p.Services[serviceName].Networks, 1,
                        serviceName, nodeID, networkNodes,
                        [edges |-> st.edges, counter |-> st.counter, has |-> FALSE])
         IN InlineServiceEdgesFrom(p, servicesList, i + 1, networkNodes,
                IF NeedsFallback(in.has)
                THEN [edges |-> Append(in.edges,
                          Edge("edge-compose-service-" \o ToString(in.counter + 1),
                               RootID, nodeID, "smoothstep", "", FALSE, "5,5")),
                      counter |-> in.counter + 1]
                ELSE [edges |-> in.edges, counter |-> in.counter])

\* Step 6: volumeUsage and the service positions by name.
InlineVolumeUsage(p, o, servicesList) ==
    LET refs == ServiceMounts(p, servicesList, 1)
        Uses(r) == IsVolumeMount(r.mount)
        used == SelectSeq(refs, Uses)
        UsersOf(v) ==
            LET OfV(r) == r.mount.Source = v
                sel == SelectSeq(used, OfV)
            IN [k \in 1..Len(sel) |-> sel[k].service]
    IN [volumeUsage |-> [v \in {used[k].mount.Source : k \in 1..Len(used)} |-> UsersOf(v)],
        positions |->
            [n \in {servicesList[i].name : i \in 1..Len(servicesList)} |->
                LET i == CHOOSE k \in 1..Len(servicesList) : servicesList[k].name = n
                IN [X |-> 0 + o.ColumnGap, Y |-> o.Padding + (i - 1) * o.ColumnTopGap]]]

\* Step 8: dependency edges, numbered by the shared counter.
InlineDependsEdges(p, nodes, servicesList, counter) ==
    LET allServices == {nodes[k].Label : k \in {j \in 1..Len(nodes) : nodes[j].Type = "service"}}
        refs == ServiceDepends(p, servicesList, 1)
        Known(r) == r.dependsOn \in allServices
        sel == SelectSeq(refs, Known)
    IN [k \in 1..Len(sel) |->
            DependsEdge(counter + k, InlineServiceNodeID(sel[k].service),
                        InlineServiceNodeID(sel[k].dependsOn))]

\* Step 9: a service -> volume edge when a node with the target id exists.
InlineServiceToVolumeEdges(p, nodes, servicesList, counter) ==
    LET refs == ServiceMounts(p, servicesList, 1)
        Emits(r) ==
            /\ IsVolumeMount(r.mount)
            /\ \E k \in 1..Len(nodes) : nodes[k].ID = VolumeNodeID(r.mount.Source)
        sel == SelectSeq(refs, Emits)
    IN [k \in 1..Len(sel) |->
            Edge("edge-service-volume-" \o ToString(counter + k),
                 InlineServiceNodeID(sel[k].service),
                 VolumeNodeID(sel[k].mount.Source), "smoothstep", "", TRUE, "")]

Inline(p, opts, nl, sl, vl) ==
    LET o == initDefaultOptions(opts)
        dim == calculateGraphDimensions(p, o)
        root == createDockerComposeNode(p, o, dim)
        net == InlineNetworkStage(p, o, dim.NetworkStartY, nl)
        serviceNodes == InlineServiceNodes(p, o, sl)
        svc == InlineServiceEdgesFrom(p, sl, 1, net.networkNodes,
                                      [edges |-> net.edges, counter |-> net.counter])
        use == InlineVolumeUsage(p, o, sl)
        pv == PositionedVolumes(p, vl, use.volumeUsage, use.positions)
        usedNodes == UsedVolumeNodes(p, o, pv.used)
        unusedNodes == UnusedVolumeNodes(p, o, dim.DockerComposeY + o.VolumeYOffset, pv.unused)
        unusedEdges == [i \in 1..Len(pv.unused) |-> UnusedVolumeEdge(pv.unused[i].name)]
        nodes == <<root>> \o net.nodes \o serviceNodes \o usedNodes \o unusedNodes
        c8 == svc.counter + Len(pv.unused)
        dependsEdges == InlineDependsEdges(p, nodes, sl, c8)
        volumeEdges == InlineServiceToVolumeEdges(p, nodes, sl, c8 + Len(dependsEdges))
        edges == svc.edges \o unusedEdges \o dependsEdges \o volumeEdges
    IN buildFinalGraph(p, nodes, edges, calculateViewport(nodes, o))

(***************************************************************************)
(* The decoder (unnamed/part_000, first copy): parseYAML and the parsers   *)
(* it calls.  A string of the document is a sequence of one-character      *)
(* strings; a raw value is what yaml's Decode into interface{} yields,     *)
(* tagged with its Go type in the field shape.                             *)
(***************************************************************************)
DecimalDigits == <<"0", "1", "2", "3", "4", "5", "6", "7", "8", "9">>

IsDigit(c) == \E d \in 1..Len(DecimalDigits) : DecimalDigits[d] = c

DigitValue(c) == (CHOOSE d \in 1..Len(DecimalDigits) : DecimalDigits[d] = c) - 1

\* strings.Split(s, sep) for a one-character sep: the pieces between the
\* separators, one piece more than there are separators.
RECURSIVE SplitFrom(_, _, _, _, _)
SplitFrom(s, sep, k, piece, pieces) ==
    IF k > Len(s) THEN Append(pieces, piece)
    ELSE IF s[k] = sep THEN SplitFrom(s, sep, k + 1, <<>>, Append(pieces, piece))
    ELSE SplitFrom(s, sep, k + 1, Append(piece, s[k]), pieces)

Split(s, sep) == SplitFrom(s, sep, 1, <<>>, <<>>)

\* The digits fmt.Sscanf's %d consumes from position k on: their value and
\* how many there are.  What follows the digits is left unread.
RECURSIVE ScanDigits(_, _, _, _)
ScanDigits(s, k, value, count) ==
    IF k <= Len(s) /\ IsDigit(s[k])
    THEN ScanDigits(s, k + 1, 10 * value + DigitValue(s[k]), count + 1)
    ELSE [value |-> value, count |-> count]

\* parsePortNumber: fmt.Sscanf(s, "%d", &port) reads an optional sign and
\* the longest run of digits, and fails when there is no digit.
parsePortNumber(s) ==
    LET signed == Len(s) >= 1 /\ s[1] \in {"+", "-"}
        scan == ScanDigits(s, IF signed THEN 2 ELSE 1, 0, 0)
    IN IF scan.count = 0 THEN [port |-> 0, err |-> TRUE]
       ELSE [port |-> IF signed /\ s[1] = "-" THEN -scan.value ELSE scan.value,
             err |-> FALSE]

\* The number of values of a uint16.
Uint16Range == 65536

\* uint16(n) of an int: the low 16 bits.
ToUint16(n) == n % Uint16Range

ZeroPort == [Target |-> 0, Published |-> 0, Protocol |-> <<>>, Mode |-> <<>>]

\* parsePort, string case, once the text is split in two at the colon: a
\* part parsePortNumber rejects leaves its field at zero.
PortFromText(parts) ==
    LET publishedParts == Split(parts[1], "/")
        targetParts == Split(parts[2], "/")
        published == parsePortNumber(publishedParts[1])
        target == parsePortNumber(targetParts[1])
    IN [Target |-> IF target.err THEN 0 ELSE ToUint16(target.port),
        Published |-> IF published.err THEN 0 ELSE ToUint16(published.port),
        Protocol |-> IF Len(targetParts) > 1 THEN targetParts[2] ELSE <<>>,
        Mode |-> <<>>]

\* parsePort: [port, err].
parsePort(raw) ==
    CASE raw.shape = "string" ->
            LET parts == Split(raw.text, ":")
            IN IF Len(parts) # 2 THEN [port |-> ZeroPort, err |-> TRUE]
               ELSE [port |-> PortFromText(parts), err |-> FALSE]
      [] raw.shape = "map" ->
            [port |-> [Target |-> ToUint16(raw.target), Published |-> ToUint16(raw.published),
                       Protocol |-> <<>>, Mode |-> <<>>],
             err |-> FALSE]
      [] OTHER -> [port |-> ZeroPort, err |-> TRUE]

\* parsePorts: [ports, err]; the first port in error ends the loop.
RECURSIVE PortsFrom(_, _, _)
PortsFrom(list, k, ports) ==
    IF k > Len(list) THEN [ports |-> ports, err |-> FALSE]
    ELSE IF parsePort(list[k]).err THEN [ports |-> <<>>, err |-> TRUE]
    ELSE PortsFrom(list, k + 1, Append(ports, parsePort(list[k]).port))

parsePorts(raw) ==
    IF raw.shape = "list" THEN PortsFrom(raw.items, 1, <<>>)
    ELSE [ports |-> <<>>, err |-> TRUE]

\* parseVolumeMount: [mount, err].  The string form is source:target or
\* source:target:options; a source starting with / or . is a bind mount.
ZeroMount == [Type |-> "volume", Source |-> <<>>, Target |-> <<>>, ReadOnly |-> FALSE]

parseVolumeMount(raw) ==
    CASE raw.shape = "string" ->
            LET parts == Split(raw.text, ":")
            IN IF Len(parts) < 2 \/ Len(parts) > 3 THEN [mount |-> ZeroMount, err |-> TRUE]
               ELSE [mount |->
                        [Type |-> IF Len(parts[1]) >= 1 /\ parts[1][1] \in {"/", "."}
                                  THEN "bind" ELSE "volume",
                         Source |-> parts[1],
                         Target |-> parts[2],
                         ReadOnly |-> Len(parts) = 3 /\ parts[3] = <<"r", "o">>],
                     err |-> FALSE]
      [] raw.shape = "map" ->
            [mount |-> [Type |-> raw.type, Source |-> raw.source, Target |-> raw.target,
                        ReadOnly |-> FALSE],
             err |-> FALSE]
      [] OTHER -> [mount |-> ZeroMount, err |-> TRUE]

\* parseVolumeMounts: [mounts, err].
RECURSIVE MountsFrom(_, _, _)
MountsFrom(list, k, mounts) ==
    IF k > Len(list) THEN [mounts |-> mounts, err |-> FALSE]
    ELSE IF parseVolumeMount(list[k]).err THEN [mounts |-> <<>>, err |-> TRUE]
    ELSE MountsFrom(list, k + 1, Append(mounts, parseVolumeMount(list[k]).mount))

parseVolumeMounts(raw) ==
    IF raw.shape = "list" THEN MountsFrom(raw.items, 1, <<>>)
    ELSE [mounts |-> <<>>, err |-> TRUE]

\* parseBuild: a string or a map is taken, any other type is an error.
parseBuild(raw) == [err |-> raw.shape \notin {"string", "map"}]

\* A key of a map that the document does not give.
Absent == [shape |-> "absent"]

Present(raw) == raw.shape # "absent"

NilService == [nil |-> TRUE]

\* The error returns of parseService.
ServiceError(raw) ==
    \/ raw.shape # "map"
    \/ Present(raw.build) /\ parseBuild(raw.build).err
    \/ Present(raw.ports) /\ parsePorts(raw.ports).err
    \/ Present(raw.volumes) /\ parseVolumeMounts(raw.volumes).err

\* parseService: [service, err].
parseService(name, raw) ==
    IF ServiceError(raw) THEN [service |-> NilService, err |-> TRUE]
    ELSE [service |->
            [Name |-> name,
             Order |-> 0,
             Ports |-> IF Present(raw.ports) THEN parsePorts(raw.ports).ports ELSE <<>>,
             Volumes |-> IF Present(raw.volumes) THEN parseVolumeMounts(raw.volumes).mounts
                         ELSE <<>>],
          err |-> FALSE]

\* parseVolume: a value that is not a map gives an empty volume; in a map,
\* driver_opts and labels go through parseLabels, which rejects a scalar.
parseVolume(name, raw) ==
    IF raw.shape = "map" /\ raw.labels = "scalar"
    THEN [volume |-> [nil |-> TRUE], err |-> TRUE]
    ELSE [volume |-> [Order |-> 0], err |-> FALSE]

\* m with key k set to v, as  m[k] = v  on a Go map.
MapPut(m, k, v) == [x \in DOMAIN m \cup {k} |-> IF x = k THEN v ELSE m[x]]

\* The services loop of parseYAML from entry j on: st is [project, err].
RECURSIVE ServicesFrom(_, _, _)
ServicesFrom(entries, j, st) ==
    IF j > Len(entries) \/ st.err THEN st
    ELSE LET order == Append(st.project.ServiceOrder, entries[j].name)
             item == parseService(entries[j].name, entries[j].raw)
         IN IF entries[j].raw.shape = "undecodable" \/ item.err
            THEN [st EXCEPT !.err = TRUE]
            ELSE ServicesFrom(entries, j + 1,
                    [st EXCEPT !.project.ServiceOrder = order,
                               !.project.Services =
                                   MapPut(@, entries[j].name,
                                          [item.service EXCEPT !.Order = Len(order)])])

\* The volumes loop of parseYAML.
RECURSIVE VolumesFrom(_, _, _)
VolumesFrom(entries, j, st) ==
    IF j > Len(entries) \/ st.err THEN st
    ELSE LET order == Append(st.project.VolumeOrder, entries[j].name)
             item == parseVolume(entries[j].name, entries[j].raw)
         IN IF item.err
            THEN [st EXCEPT !.err = TRUE]
            ELSE VolumesFrom(entries, j + 1,
                    [st EXCEPT !.project.VolumeOrder = order,
                               !.project.Volumes =
                                   MapPut(@, entries[j].name,
                                          [item.volume EXCEPT !.Order = Len(order)])])

NilProject == [nil |-> TRUE]

\* The project parseYAML starts from.
NewProject(projectName) ==
    [Name |-> projectName, Services |-> <<>>, ServiceOrder |-> <<>>,
     Volumes |-> <<>>, VolumeOrder |-> <<>>, Status |-> "parsed"]

\* Every error return of parseYAML is  return nil, fmt.Errorf(...).
ParseResult(st) ==
    IF st.err THEN [project |-> NilProject, err |-> "error"]
    ELSE [project |-> st.project, err |-> "nil"]

\* parseYAML: [project, err].  A section whose value is not a mapping is
\* passed over.
parseYAML(doc, projectName) ==
    IF doc.yaml # "mapping" THEN [project |-> NilProject, err |-> "error"]
    ELSE LET start == [project |-> NewProject(projectName), err |-> FALSE]
             services == IF doc.services.shape = "mapping"
                         THEN ServicesFrom(doc.services.entries, 1, start) ELSE start
             volumes == IF doc.volumes.shape = "mapping"
                        THEN VolumesFrom(doc.volumes.entries, 1, services) ELSE services
         IN ParseResult(volumes)

ParseYAML(doc) == parseYAML(doc, "docker-compose")

(***************************************************************************)
(* Documents ParseYAML is run on.                                          *)
(***************************************************************************)
\* Most entries of a ports list in the documents of the first family.
MaxPorts == 1

\* What stands on either side of the colon of a port: numbers up to and
\* beyond the 16-bit range, and texts that are not decimal numbers.
PortPartTexts ==
    {<<"8", "0">>, <<"6", "5", "5", "3", "5">>, <<"6", "5", "5", "3", "6">>,
     <<"7", "0", "0", "0", "0">>, <<"-", "1">>, <<"x">>, <<"8", "0", "x">>, <<>>}

PortTexts ==
    {p \o <<":">> \o t \o suffix :
        p \in PortPartTexts, t \in PortPartTexts, suffix \in {<<>>, <<"/", "u", "d", "p">>}}
    \cup {<<"8", "0">>, <<"1", ":", "2", ":", "3">>}

PortRaws ==
    {[shape |-> "string", text |-> t] : t \in PortTexts}
    \cup {[shape |-> "map", target |-> 80, published |-> n] : n \in {8080, 70000}}
    \cup {[shape |-> "int"]}

GoodPort == [shape |-> "string", text |-> <<"8", "0", ":", "8", "0">>]

BadPort == [shape |-> "string", text |-> <<"8", "0">>]

ListOf(items) == [shape |-> "list", items |-> items]

MountRaws ==
    {[shape |-> "string", text |-> t] :
        t \in {<<"a", ":", "/", "d">>, <<"/", "h", ":", "/", "d">>,
               <<".", ":", "/", "d", ":", "r", "o">>, <<"a">>,
               <<"a", ":", "b", ":", "c", ":", "d">>}}
    \cup {[shape |-> "map", type |-> "volume", source |-> <<"a">>, target |-> <<"/", "d">>],
          [shape |-> "int"]}

ServiceMap(build, ports, volumes) ==
    [shape |-> "map", build |-> build, ports |-> ports, volumes |-> volumes]

PlainService == ServiceMap(Absent, Absent, Absent)

Section(entries) == [shape |-> "mapping", entries |-> entries]

NullSection == [shape |-> "null", entries |-> <<>>]

Mapping(services, volumes) == [yaml |-> "mapping", services |-> services, volumes |-> volumes]

\* One service whose ports list has up to MaxPorts entries of every form.
PortDocuments ==
    {Mapping(Section(<<[name |-> "a", raw |-> ServiceMap(Absent, ListOf(items), Absent)]>>),
             NullSection) :
        items \in UNION {[1..n -> PortRaws] : n \in 0..MaxPorts}}

\* Documents of every shape: not YAML, no root mapping, sections that are
\* not mappings, services and nested sections of the wrong type, a second
\* service or a volume after a first that was taken.
FirstServiceRaws ==
    {[shape |-> "scalar"], [shape |-> "undecodable"]}
    \cup {ServiceMap(build, ports, volumes) :
            build \in {Absent, [shape |-> "string"], [shape |-> "list"]},
            ports \in {Absent, [shape |-> "scalar"], ListOf(<<GoodPort>>),
                       ListOf(<<GoodPort, BadPort>>), ListOf(<<BadPort>>)},
            volumes \in {Absent, [shape |-> "scalar"]}
                        \cup {ListOf(<<m>>) : m \in MountRaws}
                        \cup {ListOf(<<[shape |-> "string", text |-> <<"a", ":", "/", "d">>],
                                       [shape |-> "int"]>>)}}

LaterServices ==
    {<<>>, <<[name |-> "a", raw |-> PlainService]>>, <<[name |-> "b", raw |-> PlainService]>>,
     <<[name |-> "b", raw |-> [shape |-> "scalar"]]>>}

VolumeSections ==
    {NullSection,
     Section(<<[name |-> "a", raw |-> [shape |-> "null"]]>>),
     Section(<<[name |-> "a", raw |-> [shape |-> "map", labels |-> "list"]],
               [name |-> "b", raw |-> [shape |-> "map", labels |-> "scalar"]]>>)}

ShapeDocuments ==
    {[yaml |-> k] : k \in {"malformed", "empty", "sequence"}}
    \cup {Mapping(NullSection, v) : v \in VolumeSections}
    \cup {Mapping(Section(<<[name |-> "a", raw |-> first]>> \o later), v) :
            first \in FirstServiceRaws, later \in LaterServices, v \in VolumeSections}

Documents == PortDocuments \cup ShapeDocuments

\* No document: the decoder is not run.
NoDocument == [yaml |-> "none"]

(***************************************************************************)
(* Project snapshots and options the layout is run on.                     *)
(***************************************************************************)
MountValues ==
    {[Type |-> "volume", Source |-> n] : n \in Names \cup {""}}
    \cup {[Type |-> "bind", Source |-> "a"]}

\* One entry of a service's Networks, DependsOn or Volumes list: the values
\* an entry of one of the kinds can take in a service of S.
RefValues(S, kinds) ==
    {[service |-> s, kind |-> k, name |-> n, mount |-> [Type |-> "", Source |-> ""]] :
        s \in S, k \in kinds \cap {"net", "dep"}, n \in Names}
    \cup {[service |-> s, kind |-> k, name |-> "", mount |-> m] :
        s \in S, k \in kinds \cap {"mount"}, m \in MountValues}

\* At most MaxRefs list entries in the whole project.
RefLists(S, kinds) == UNION {[1..n -> RefValues(S, kinds)] : n \in 0..MaxRefs}

\* The entries of refs that belong to list kind of service s, in order.
RefsOf(refs, s, kind) ==
    LET Mine(r) == r.service = s /\ r.kind = kind
    IN SelectSeq(refs, Mine)

BuildProject(orders, refs, networks, volumeOrders, serviceOrder, volumeOrder) ==
    [Name |-> "p", Version |-> "3.8",
     Services |->
        [s \in DOMAIN orders |->
            [Order |-> orders[s],
             Networks |-> [k \in 1..Len(RefsOf(refs, s, "net")) |-> RefsOf(refs, s, "net")[k].name],
             DependsOn |-> [k \in 1..Len(RefsOf(refs, s, "dep")) |-> RefsOf(refs, s, "dep")[k].name],
             Volumes |-> [k \in 1..Len(RefsOf(refs, s, "mount")) |-> RefsOf(refs, s, "mount")[k].mount]]],
     ServiceOrder |-> serviceOrder,
     Networks |-> [n \in networks |-> [Driver |-> "bridge"]],
     Volumes |-> [v \in DOMAIN volumeOrders |-> [Order |-> volumeOrders[v]]],
     VolumeOrder |-> volumeOrder]

\* Order fields: every map from a set of names to 0..MaxOrder, or to 0 only.
OrderMaps == UNION {[S -> 0..MaxOrder] : S \in SUBSET Names}

ZeroOrderMaps == {[n \in S |-> 0] : S \in SUBSET Names}

DeclaredOrders == {<<>>, <<"b", "a">>}

\* A caller's value with some fields set and the others left at zero.
PartialOptions == [ZeroOptions EXCEPT !.Direction = "LR", !.NodeWidth = 200, !.Padding = 40]

OptionValues ==
    {NilOptions, PartialOptions, [DefaultOptions EXCEPT !.ColumnTopGap = -120],
     [Direction |-> "TB", NodeWidth |-> 200, NodeHeight |-> 90, NodeGapX |-> 70,
      NodeGapY |-> 30, Padding |-> 40, ColumnGap |-> 400, ColumnTopGap |-> 100,
      DockerComposeStart |-> -300, VolumeXOffset |-> 250, VolumeYOffset |-> 150,
      LastY |-> 500]}

\* The snapshots with the given Order maps, entry kinds, network sets, volume
\* Order maps and declared sequences.
Snapshots(orderMaps, kinds, networkSets, volumeMaps, serviceOrders, volumeOrders) ==
    \E orders \in orderMaps, networks \in networkSets, volumeOrds \in volumeMaps,
       serviceOrder \in serviceOrders, volumeOrder \in volumeOrders :
        \E refs \in RefLists(DOMAIN orders, kinds) :
            project = BuildProject(orders, refs, networks, volumeOrds,
                                   serviceOrder, volumeOrder)

\* No graph returned yet.
NoGraph == [Layout |-> "none"]

\* The error result before the call, and the error ParseToReactFlow returns:
\* both versions end in  return graph, nil  and have no other return.
NotCalled == "not called"

\* A slip: an empty Services map is reported as an error.
ReturnedErrorRejectingEmpty(p) == IF Keys(p.Services) = {} THEN "error" ELSE "nil"

ReturnedError(p) == "nil"

Returned(g) == "Nodes" \in DOMAIN g

\* Network memberships against the declared networks.
InitNetworks ==
    /\ Snapshots(ZeroOrderMaps, {"net"}, SUBSET Names, {<<>>}, {<<"b", "a">>}, {<<>>})
    /\ options = NilOptions

\* Dependencies and the service order: Order fields and declared sequence.
InitDepends ==
    /\ Snapshots(OrderMaps, {"dep"}, {{}}, {<<>>}, DeclaredOrders, {<<>>})
    /\ options = NilOptions

\* Mounts against the declared volumes, under every options value.
InitMounts ==
    /\ Snapshots(ZeroOrderMaps, {"mount"}, {{}}, ZeroOrderMaps, {<<"b", "a">>}, {<<"b", "a">>})
    /\ options \in OptionValues

\* Mounts and the volume order: Order fields and declared sequence.
InitVolumes ==
    /\ Snapshots(ZeroOrderMaps, {"mount"}, {{}}, OrderMaps, {<<"b", "a">>}, DeclaredOrders)
    /\ options = NilOptions

\* Entries of all kinds in one project, one network, volume and name shared.
InitMixed ==
    /\ Snapshots(ZeroOrderMaps, {"net", "dep", "mount"}, {{"a"}}, {[n \in {"a"} |-> 0]},
                 {<<"b", "a">>}, {<<>>})
    /\ options = NilOptions

\* Two services the resolver cannot order (Order 0, no declared sequence),
\* with mounts.
InitTies ==
    /\ Snapshots({[n \in Names |-> 0]}, {"mount"}, {{}}, {[n \in {"a"} |-> 0]}, {<<>>}, {<<>>})
    /\ options = NilOptions

\* Two services and three mounts of the one declared volume, so that a
\* service may mount it more often than the other.
InitShared ==
    /\ \E refs \in [1..3 -> RefValues(Names, {"mount"})], serviceOrder \in DeclaredOrders :
        /\ \A k \in 1..3 : refs[k].mount = [Type |-> "volume", Source |-> "a"]
        /\ project = BuildProject([n \in Names |-> 0], refs, {}, [n \in {"a"} |-> 0],
                                  serviceOrder, <<>>)
    /\ options = NilOptions

\* Options under which the two columns differ in height either way, by odd
\* and by even amounts, and the spacings differ from the network spacing.
ColumnOptions ==
    {NilOptions,
     [DefaultOptions EXCEPT !.NodeWidth = 105, !.NodeHeight = 91, !.ColumnTopGap = 60],
     [Direction |-> "TB", NodeWidth |-> 200, NodeHeight |-> 90, NodeGapX |-> 70,
      NodeGapY |-> 30, Padding |-> 40, ColumnGap |-> 400, ColumnTopGap |-> 100,
      DockerComposeStart |-> -300, VolumeXOffset |-> 250, VolumeYOffset |-> 150,
      LastY |-> 500]}

\* Services, networks and volumes without references between them: the
\* columns of the layout alone.
InitColumns ==
    /\ Snapshots(ZeroOrderMaps, {}, SUBSET Names, ZeroOrderMaps, {<<>>}, {<<>>})
    /\ options \in ColumnOptions

\* The decoder and the resolver on its own not run.
ParseIdle == document = NoDocument /\ parsed = NilProject /\ parseErr = NotCalled

NotSorted == <<[name |-> "", order |-> -1]>>

SortIdle == sortedServices = NotSorted /\ sortedVolumes = NotSorted

\* The viewport calculator on its own not run.
NoViewport == [Zoom |-> 0]

ViewIdle == viewNodes = <<>> /\ viewportOut = NoViewport

Init ==
    /\ \/ InitNetworks \/ InitDepends \/ InitMounts \/ InitVolumes \/ InitMixed \/ InitTies
       \/ InitShared \/ InitColumns
    /\ graph = NoGraph
    /\ graphInline = NoGraph
    /\ err = NotCalled
    /\ errInline = NotCalled
    /\ ParseIdle
    /\ SortIdle
    /\ ViewIdle

\* A call of ParseToReactFlow of part_001 on the snapshot.
ParseToReactFlow ==
    LET S == SortedServiceLists(project)
    IN \E nl \in SortedNetworkLists(project), vl \in SortedVolumeLists(project),
          s1 \in S, s2 \in S, s3 \in S, s4 \in S, s5 \in S :
            /\ graph' = Pipeline(project, options, nl, s1, s2, s3, s4, s5, vl)
            /\ err' = ReturnedError(project)
            /\ UNCHANGED <<project, options, graphInline, errInline, parseVars, sortVars, viewVars>>

\* A call of ParseToReactFlow of part_000 on the snapshot.
ParseToReactFlowInline ==
    \E nl \in SortedNetworkLists(project), vl \in SortedVolumeLists(project),
       sl \in SortedServiceLists(project) :
        /\ graphInline' = Inline(project, options, nl, sl, vl)
        /\ errInline' = ReturnedError(project)
        /\ UNCHANGED <<project, options, graph, err, parseVars, sortVars, viewVars>>

Next == ParseToReactFlow \/ ParseToReactFlowInline

Spec == Init /\ [][Next]_vars

(***************************************************************************)
(* The decoder on its own: ParseYAML on a document.                        *)
(***************************************************************************)
LayoutIdle ==
    /\ project = NilProject /\ options = NilOptions
    /\ graph = NoGraph /\ graphInline = NoGraph
    /\ err = NotCalled /\ errInline = NotCalled

InitParse ==
    /\ document \in Documents
    /\ parsed = NilProject
    /\ parseErr = NotCalled
    /\ LayoutIdle
    /\ SortIdle
    /\ ViewIdle

ParseYAMLCall ==
    /\ parseErr = NotCalled
    /\ parsed' = ParseYAML(document).project
    /\ parseErr' = ParseYAML(document).err
    /\ UNCHANGED <<document, layoutVars, sortVars, viewVars>>

NextParse == ParseYAMLCall

SpecParse == InitParse /\ [][NextParse]_vars

(***************************************************************************)
(* The viewport calculator beside the layout: calculateViewport is called  *)
(* by ParseToReactFlow on all the nodes, and here also on its own on any   *)
(* leading part of the node list of the pipeline, the empty one included.  *)
(***************************************************************************)
\* Services the resolver can order (b after a by its Order field), so that
\* a snapshot has one layout.
ViewOrderMaps == {[n \in S |-> IF n = "b" THEN 1 ELSE 0] : S \in {{}, {"a"}, {"a", "b"}}}

InitView ==
    /\ Snapshots(ViewOrderMaps, {}, SUBSET Names, {<<>>, [n \in {"a"} |-> 0]}, {<<>>}, {<<>>})
    /\ options \in ColumnOptions
    /\ graph = NoGraph /\ graphInline = NoGraph
    /\ err = NotCalled /\ errInline = NotCalled
    /\ ParseIdle
    /\ SortIdle
    /\ ViewIdle

NodeLists ==
    IF Returned(graph) THEN {SubSeq(graph.Nodes, 1, n) : n \in 0..Len(graph.Nodes)}
    ELSE {<<>>}

CalculateViewport ==
    /\ viewportOut = NoViewport
    /\ \E nodes \in NodeLists :
        /\ viewNodes' = nodes
        /\ viewportOut' = calculateViewport(nodes, initDefaultOptions(options))
    /\ UNCHANGED <<layoutVars, parseVars, sortVars>>

NextView == ParseToReactFlow \/ ParseToReactFlowInline \/ CalculateViewport

SpecView == InitView /\ [][NextView]_vars

(***************************************************************************)
(* Vocabulary of the properties.                                           *)
(***************************************************************************)
\* The graphs returned so far, each with the service id scheme of its version.
PipelineReturned == Returned(graph)

InlineReturned == Returned(graphInline)

NodeIDs(g) == {g.Nodes[k].ID : k \in 1..Len(g.Nodes)}

NodesWithID(g, id) == {k \in 1..Len(g.Nodes) : g.Nodes[k].ID = id}

EdgesBetween(g, source, target) ==
    {k \in 1..Len(g.Edges) : g.Edges[k].Source = source /\ g.Edges[k].Target = target}

ServiceNames == Keys(project.Services)

NetworkNames == Keys(project.Networks)

VolumeNames == Keys(project.Volumes)

\* The positions k of list at which name stands.
Occurrences(list, name) == {k \in 1..Len(list) : list[k] = name}

\* The mounts of service s that use the named volume v.
MountsOf(s, v) ==
    {k \in 1..Len(project.Services[s].Volumes) :
        /\ project.Services[s].Volumes[k].Type = "volume"
        /\ project.Services[s].Volumes[k].Source # ""
        /\ project.Services[s].Volumes[k].Source = v}

IsMounted(v) == \E s \in ServiceNames : MountsOf(s, v) # {}

\* The sources of the volume mounts of the services, declared or not.
MountSources ==
    UNION {{project.Services[s].Volumes[k].Source :
                k \in {j \in 1..Len(project.Services[s].Volumes) :
                          /\ project.Services[s].Volumes[j].Type = "volume"
                          /\ project.Services[s].Volumes[j].Source # ""}} :
           s \in ServiceNames}

\* The used-volume nodes of g, in node-list order (the order of placement).
UsedVolumeIndexes(g) ==
    {k \in 1..Len(g.Nodes) : g.Nodes[k].Type = "volume" /\ g.Nodes[k].Properties.used}

(***************************************************************************)
(* C1: every edge of a returned graph has a Source and a Target that are   *)
(* ids of nodes of the same graph.                                         *)
(***************************************************************************)
EndpointsAreNodes(g) ==
    \A k \in 1..Len(g.Edges) :
        g.Edges[k].Source \in NodeIDs(g) /\ g.Edges[k].Target \in NodeIDs(g)

C1_EdgeEndpointsAreNodes ==
    /\ PipelineReturned => EndpointsAreNodes(graph)
    /\ InlineReturned => EndpointsAreNodes(graphInline)

(***************************************************************************)
(* C2: no two nodes of a returned graph have the same id, also when a      *)
(* network, a service and a volume share a name.                           *)
(***************************************************************************)
NodeIDsUnique(g) ==
    \A i, j \in 1..Len(g.Nodes) : g.Nodes[i].ID = g.Nodes[j].ID => i = j

C2_NodeIDsUnique ==
    /\ PipelineReturned => NodeIDsUnique(graph)
    /\ InlineReturned => NodeIDsUnique(graphInline)

\* A graph of each version for a project where one name is a network, a
\* service and a volume at once.
C2_Witness ==
    /\ PipelineReturned /\ InlineReturned
    /\ \E n \in Names : n \in NetworkNames /\ n \in ServiceNames /\ n \in VolumeNames
    /\ Len(graph.Nodes) >= 4

(***************************************************************************)
(* C3: a service none of whose Networks entries is a declared network has  *)
(* exactly one root -> service edge and no network -> service edge; a      *)
(* service with a declared network among them has no root -> service edge. *)
(***************************************************************************)
HasDeclaredNetwork(s) ==
    \E k \in 1..Len(project.Services[s].Networks) :
        project.Services[s].Networks[k] \in NetworkNames

NetworkEdgesInto(g, target) ==
    {k \in 1..Len(g.Edges) :
        /\ g.Edges[k].Target = target
        /\ \E n \in NetworkNames : g.Edges[k].Source = NetworkNodeID(n)}

FallbackRule(g, ID(_)) ==
    \A s \in ServiceNames :
        IF HasDeclaredNetwork(s)
        THEN EdgesBetween(g, RootID, ID(s)) = {}
        ELSE /\ Cardinality(EdgesBetween(g, RootID, ID(s))) = 1
             /\ NetworkEdgesInto(g, ID(s)) = {}

C3_FallbackEdgeRule ==
    /\ PipelineReturned => FallbackRule(graph, ServiceNodeID)
    /\ InlineReturned => FallbackRule(graphInline, InlineServiceNodeID)

\* One service whose only network is undeclared, another in a declared one.
C3_Witness ==
    /\ PipelineReturned /\ InlineReturned
    /\ \E s, t \in ServiceNames :
        /\ Len(project.Services[s].Networks) > 0 /\ ~HasDeclaredNetwork(s)
        /\ HasDeclaredNetwork(t)
        /\ Cardinality(EdgesBetween(graph, RootID, ServiceNodeID(s))) = 1
        /\ NetworkEdgesInto(graph, ServiceNodeID(t)) # {}

(***************************************************************************)
(* C4: no two used-volume nodes have the same Y; in placement order the    *)
(* first has Y >= padding and each later one Y >= previous Y +             *)
(* columnTopGap.                                                           *)
(***************************************************************************)
UsedVolumeYsDistinct(g) ==
    \A i, j \in UsedVolumeIndexes(g) : g.Nodes[i].Y = g.Nodes[j].Y => i = j

UsedVolumeBounds(g, o) ==
    \A i \in UsedVolumeIndexes(g) :
        IF \E h \in UsedVolumeIndexes(g) : h < i
        THEN LET prev == CHOOSE h \in UsedVolumeIndexes(g) :
                            h < i /\ \A h2 \in UsedVolumeIndexes(g) : h2 < i => h2 <= h
             IN g.Nodes[i].Y >= g.Nodes[prev].Y + o.ColumnTopGap
        ELSE g.Nodes[i].Y >= o.Padding

C5_RerunReturnsSameGraph ==
    [][/\ PipelineReturned => graph' = graph
       /\ InlineReturned => graphInline' = graphInline]_vars

(***************************************************************************)
(* C6: for every declared network there is exactly one edge from the root  *)
(* to its node; one network with one member service gives 3 nodes and the  *)
(* two edges root -> network and network -> service.                       *)
(***************************************************************************)
RootToNetworkEdges(g, ID(_)) ==
    /\ \A n \in NetworkNames :
        Cardinality(EdgesBetween(g, RootID, NetworkNodeID(n))) = 1
    /\ \A n \in NetworkNames, s \in ServiceNames :
        (/\ NetworkNames = {n} /\ ServiceNames = {s} /\ VolumeNames = {}
         /\ project.Services[s].Networks = <<n>>
         /\ project.Services[s].DependsOn = <<>>
         /\ project.Services[s].Volumes = <<>>)
        => /\ Len(g.Nodes) = 3
           /\ Len(g.Edges) = 2
           /\ Cardinality(EdgesBetween(g, NetworkNodeID(n), ID(s))) = 1

C6_OneRootEdgePerNetwork ==
    /\ PipelineReturned => RootToNetworkEdges(graph, ServiceNodeID)
    /\ InlineReturned => RootToNetworkEdges(graphInline, InlineServiceNodeID)

(***************************************************************************)
(* C7: every declared volume no service mounts has exactly one edge from   *)
(* the root to its node, labelled "unused"; a used volume has none.        *)
(***************************************************************************)
UnusedVolumeEdges(g) ==
    \A v \in VolumeNames :
        IF IsMounted(v)
        THEN EdgesBetween(g, RootID, VolumeNodeID(v)) = {}
        ELSE /\ Cardinality(EdgesBetween(g, RootID, VolumeNodeID(v))) = 1
             /\ \A k \in EdgesBetween(g, RootID, VolumeNodeID(v)) : g.Edges[k].Label = "unused"

C7_OneRootEdgePerUnusedVolume ==
    /\ PipelineReturned => UnusedVolumeEdges(graph)
    /\ InlineReturned => UnusedVolumeEdges(graphInline)

(***************************************************************************)
(* C8: an entry of DependsOn, Networks or a volume mount source that names *)
(* nothing declared produces no edge; the service -> volume edges are as   *)
(* many as the volume mounts whose source is a declared volume.            *)
(***************************************************************************)
ServiceToVolumeEdges(g, ID(_)) ==
    {k \in 1..Len(g.Edges) :
        /\ \E s \in ServiceNames : g.Edges[k].Source = ID(s)
        /\ \E v \in MountSources \cup VolumeNames : g.Edges[k].Target = VolumeNodeID(v)}

DeclaredMounts ==
    UNION {{<<s, k>> : k \in UNION {MountsOf(s, v) : v \in VolumeNames}} : s \in ServiceNames}

UnresolvedDropped(g, ID(_)) ==
    /\ \A s \in ServiceNames, n \in Names \ NetworkNames :
        \A k \in 1..Len(g.Edges) : g.Edges[k].Target = ID(s) => g.Edges[k].Source # NetworkNodeID(n)
    /\ \A s \in ServiceNames, t \in Names \ ServiceNames :
        \A k \in 1..Len(g.Edges) : g.Edges[k].Source = ID(s) => g.Edges[k].Target # ID(t)
    /\ \A v \in MountSources \ VolumeNames :
        \A k \in 1..Len(g.Edges) : g.Edges[k].Target # VolumeNodeID(v)
    /\ Cardinality(ServiceToVolumeEdges(g, ID)) = Cardinality(DeclaredMounts)

C8_UnresolvedReferencesDropped ==
    /\ PipelineReturned => UnresolvedDropped(graph, ServiceNodeID)
    /\ InlineReturned => UnresolvedDropped(graphInline, InlineServiceNodeID)

(***************************************************************************)
(* C9: for declared services a and b there is one edge per entry b of      *)
(* a.DependsOn, from the node of a to the node of b and animated, whatever *)
(* the order of a and b; there is no other service -> service edge.        *)
(***************************************************************************)
DependencyEdges(g, ID(_)) ==
    \A a, b \in ServiceNames :
        /\ Cardinality(EdgesBetween(g, ID(a), ID(b)))
              = Cardinality(Occurrences(project.Services[a].DependsOn, b))
        /\ \A k \in EdgesBetween(g, ID(a), ID(b)) : g.Edges[k].Animated

C9_DependencyEdgesDirected ==
    /\ PipelineReturned => DependencyEdges(graph, ServiceNodeID)
    /\ InlineReturned => DependencyEdges(graphInline, InlineServiceNodeID)

\* a depends on b where the node of a is placed after the node of b.
C9_Witness ==
    /\ PipelineReturned /\ InlineReturned
    /\ \E a, b \in ServiceNames :
        /\ a # b
        /\ Occurrences(project.Services[a].DependsOn, b) # {}
        /\ Occurrences(project.Services[b].DependsOn, a) = {}
        /\ \E i, j \in 1..Len(graph.Nodes) :
            /\ graph.Nodes[i].ID = ServiceNodeID(a)
            /\ graph.Nodes[j].ID = ServiceNodeID(b)
            /\ j < i
        /\ Cardinality(EdgesBetween(graph, ServiceNodeID(a), ServiceNodeID(b))) = 1

(***************************************************************************)
(* C10: every declared volume has exactly one volume node; a mounted one   *)
(* has used = true and used_by listing the mounting services in service    *)
(* order, one entry per mount; any other has used = false and status       *)
(* "unused".  One service mounting one declared volume gives 3 nodes and   *)
(* the edges root -> service and service -> volume.                        *)
(***************************************************************************)
\* used_by follows the service order: no entry is ordered before an earlier one.
InServiceOrder(usedBy) ==
    \A i, j \in 1..Len(usedBy) :
        i < j => ~OrderLess([name |-> usedBy[j], order |-> project.Services[usedBy[j]].Order],
                            [name |-> usedBy[i], order |-> project.Services[usedBy[i]].Order],
                            project.ServiceOrder)

VolumePartition(g, ID(_)) ==
    /\ Cardinality({k \in 1..Len(g.Nodes) : g.Nodes[k].Type = "volume"})
          = Cardinality(VolumeNames)
    /\ \A v \in VolumeNames :
        /\ Cardinality(NodesWithID(g, VolumeNodeID(v))) = 1
        /\ \A k \in NodesWithID(g, VolumeNodeID(v)) :
            LET props == g.Nodes[k].Properties
            IN /\ g.Nodes[k].Type = "volume"
               /\ IF IsMounted(v)
                  THEN /\ props.used = TRUE
                       /\ \A s \in Names :
                            Cardinality(Occurrences(props.used_by, s))
                              = IF s \in ServiceNames THEN Cardinality(MountsOf(s, v)) ELSE 0
                       /\ InServiceOrder(props.used_by)
                  ELSE /\ props.used = FALSE
                       /\ props.status = "unused"
                       /\ props.used_by = <<>>
    /\ \A s \in ServiceNames, v \in VolumeNames :
        (/\ ServiceNames = {s} /\ VolumeNames = {v} /\ NetworkNames = {}
         /\ project.Services[s].Volumes = <<[Type |-> "volume", Source |-> v]>>
         /\ project.Services[s].DependsOn = <<>>)
        => /\ Len(g.Nodes) = 3
           /\ Len(g.Edges) = 2
           /\ Cardinality(EdgesBetween(g, RootID, ID(s))) = 1
           /\ Cardinality(EdgesBetween(g, ID(s), VolumeNodeID(v))) = 1

MinimalGraphs(g, ID(_)) ==
    /\ (ServiceNames = {} /\ NetworkNames = {} /\ VolumeNames = {})
        => /\ Len(g.Nodes) = 1
           /\ g.Nodes[1].ID = RootID
           /\ Len(g.Edges) = 0
    /\ \A s \in ServiceNames :
        (/\ ServiceNames = {s} /\ NetworkNames = {} /\ VolumeNames = {}
         /\ project.Services[s].DependsOn = <<>>
         /\ project.Services[s].Volumes = <<>>)
        => /\ Len(g.Nodes) = 2
           /\ NodeIDs(g) = {RootID, ID(s)}
           /\ Len(g.Edges) = 1
           /\ g.Edges[1].Source = RootID
           /\ g.Edges[1].Target = ID(s)

C11_MinimalGraphs ==
    /\ PipelineReturned => MinimalGraphs(graph, ServiceNodeID)
    /\ InlineReturned => MinimalGraphs(graphInline, InlineServiceNodeID)

\* One service and nothing else, laid out by both versions.
C11_Witness ==
    /\ PipelineReturned /\ InlineReturned
    /\ Cardinality(ServiceNames) = 1 /\ NetworkNames = {} /\ VolumeNames = {}
    /\ \A s \in ServiceNames :
        project.Services[s].DependsOn = <<>> /\ project.Services[s].Volumes = <<>>
    /\ Len(graph.Edges) = 1 /\ Len(graphInline.Edges) = 1

(***************************************************************************)
(* C12: ParseToReactFlow is total.  On every snapshot and options value,   *)
(* empty collections and nil options included, a call that has returned    *)
(* gave a nil error and a graph, with the root node first.                 *)
(***************************************************************************)
ReturnsGraph(g, e) ==
    e # NotCalled =>
        /\ e = "nil"
        /\ Returned(g)
        /\ Len(g.Nodes) >= 1
        /\ g.Nodes[1].ID = RootID

C12_ParseToReactFlowTotal ==
    /\ ReturnsGraph(graph, err)
    /\ ReturnsGraph(graphInline, errInline)

\* All three collections empty, options not nil.
C12_Witness ==
    /\ err = "nil" /\ errInline = "nil"
    /\ ServiceNames = {} /\ NetworkNames = {} /\ VolumeNames = {}
    /\ options # NilOptions
    /\ Len(graph.Nodes) = 1 /\ Len(graphInline.Nodes) = 1

(***************************************************************************)
(* C13: defaults are applied per option.  A call with an options value in  *)
(* which some fields are zero returns the graph it returns when each zero  *)
(* field among nodeWidth, nodeHeight, nodeGapX, padding, columnGap,        *)
(* columnTopGap, rootColumnStartX, volumeXOffset and volumeYOffset holds   *)
(* its default.                                                            *)
(***************************************************************************)
DefaultedFields ==
    {"NodeWidth", "NodeHeight", "NodeGapX", "Padding", "ColumnGap", "ColumnTopGap",
     "DockerComposeStart", "VolumeXOffset", "VolumeYOffset"}

\* o with every unset field of DefaultedFields replaced by its default.
WithDefaults(o) ==
    [f \in DOMAIN o |-> IF f \in DefaultedFields /\ o[f] = 0 THEN DefaultOptions[f] ELSE o[f]]

C13_DefaultsPerUnsetOption ==
    /\ (PipelineReturned /\ options # NilOptions) =>
        \E nl \in SortedNetworkLists(project), vl \in SortedVolumeLists(project),
           sl \in SortedServiceLists(project) :
            graph = Pipeline(project, WithDefaults(options), nl, sl, sl, sl, sl, sl, vl)
    /\ (InlineReturned /\ options # NilOptions) =>
        \E nl \in SortedNetworkLists(project), vl \in SortedVolumeLists(project),
           sl \in SortedServiceLists(project) :
            graphInline = Inline(project, WithDefaults(options), nl, sl, vl)

(***************************************************************************)
(* C14: the id of an edge is a function of its source, its target and its  *)
(* relation kind.  An edge that two runs on the snapshot both return (the  *)
(* only edge of its source and target in each graph, source and target     *)
(* fixing the kind) has the same id in both, whatever order the runs       *)
(* traverse the maps in; no id comes from a counter.                       *)
(***************************************************************************)
SameEdgeSameID(g1, g2) ==
    \A i \in 1..Len(g1.Edges), j \in 1..Len(g2.Edges) :
        (/\ g1.Edges[i].Source = g2.Edges[j].Source
         /\ g1.Edges[i].Target = g2.Edges[j].Target
         /\ Cardinality(EdgesBetween(g1, g1.Edges[i].Source, g1.Edges[i].Target)) = 1
         /\ Cardinality(EdgesBetween(g2, g2.Edges[j].Source, g2.Edges[j].Target)) = 1)
        => g1.Edges[i].ID = g2.Edges[j].ID

C14_EdgeIDsFromEndpoints ==
    [][/\ PipelineReturned => SameEdgeSameID(graph, graph')
       /\ InlineReturned => SameEdgeSameID(graphInline, graphInline')]_vars

(***************************************************************************)
(* The ordering resolver on its own: getSortedServices and                 *)
(* getSortedVolumes on maps of up to three entities and declared sequences *)
(* with repeated and unknown names.                                        *)
(***************************************************************************)
MaxSortOrder == 2

MaxDeclared == 3

SortNames == {"a", "b", "c"}

SortOrderMaps == UNION {[S -> 0..MaxSortOrder] : S \in SUBSET SortNames}

SortDeclared == UNION {[1..n -> SortNames] : n \in 0..MaxDeclared}

\* Services and volumes carry the same names, Order fields and declared
\* sequence.
InitSort ==
    /\ \E orders \in SortOrderMaps, declared \in SortDeclared :
            project = BuildProject(orders, <<>>, {}, orders, declared, declared)
    /\ options = NilOptions
    /\ graph = NoGraph /\ graphInline = NoGraph
    /\ err = NotCalled /\ errInline = NotCalled
    /\ ParseIdle
    /\ SortIdle
    /\ ViewIdle

GetSortedServices ==
    /\ sortedServices = NotSorted
    /\ sortedServices' \in SortedServiceLists(project)
    /\ UNCHANGED <<layoutVars, parseVars, sortedVolumes, viewVars>>

GetSortedVolumes ==
    /\ sortedVolumes = NotSorted
    /\ sortedVolumes' \in SortedVolumeLists(project)
    /\ UNCHANGED <<layoutVars, parseVars, sortedServices, viewVars>>

NextSort == GetSortedServices \/ GetSortedVolumes

SpecSort == InitSort /\ [][NextSort]_vars

(***************************************************************************)
(* C15: ParseYAML returns a project and a nil error, or a nil project and  *)
(* an error; a failure in decoding the document, a service, a port, a      *)
(* volume mount or a nested section makes it return the nil project and    *)
(* an error.                                                               *)
(***************************************************************************)
\* A port the decoder cannot make sense of: not a string or a map, not two
\* parts around one colon, or a part that is no number.
PortUndecodable(raw) ==
    \/ raw.shape \notin {"string", "map"}
    \/ /\ raw.shape = "string"
       /\ LET parts == Split(raw.text, ":")
          IN \/ Len(parts) # 2
             \/ \E k \in 1..2 : parsePortNumber(Split(parts[k], "/")[1]).err

ServiceUndecodable(raw) ==
    \/ raw.shape # "map"
    \/ /\ raw.shape = "map"
       /\ \/ Present(raw.build) /\ parseBuild(raw.build).err
          \/ /\ Present(raw.ports)
             /\ \/ raw.ports.shape # "list"
                \/ /\ raw.ports.shape = "list"
                   /\ \E k \in 1..Len(raw.ports.items) : PortUndecodable(raw.ports.items[k])
          \/ Present(raw.volumes) /\ parseVolumeMounts(raw.volumes).err

DocumentUndecodable(doc) ==
    \/ doc.yaml # "mapping"
    \/ /\ doc.yaml = "mapping"
       /\ \/ \E j \in 1..Len(doc.services.entries) :
                ServiceUndecodable(doc.services.entries[j].raw)
          \/ \E j \in 1..Len(doc.volumes.entries) :
                parseVolume(doc.volumes.entries[j].name, doc.volumes.entries[j].raw).err

C15_ParseYAMLAllOrNothing ==
    parseErr # NotCalled =>
        /\ (parseErr = "nil") = (parsed # NilProject)
        /\ DocumentUndecodable(document) => (parsed = NilProject /\ parseErr = "error")

(***************************************************************************)
(* C16: a port written "P:T" or "P:T/proto" with decimal numbers P and T,  *)
(* in a document ParseYAML accepts, is stored with Published = P,          *)
(* Target = T and Protocol = proto.                                        *)
(***************************************************************************)
IsDecimal(s) == Len(s) >= 1 /\ \A k \in 1..Len(s) : IsDigit(s[k])

\* The number a run of digits writes.
RECURSIVE DecimalValue(_)
DecimalValue(s) ==
    IF s = <<>> THEN 0
    ELSE 10 * DecimalValue(SubSeq(s, 1, Len(s) - 1)) + DigitValue(s[Len(s)])

\* raw is a short-form port of decimal numbers and port is what it says.
PortAsWritten(raw, port) ==
    LET parts == Split(raw.text, ":")
        target == Split(parts[2], "/")
    IN (/\ Len(parts) = 2 /\ IsDecimal(parts[1])
        /\ Len(target) \in {1, 2} /\ IsDecimal(target[1]))
       => /\ port.Published = DecimalValue(parts[1])
          /\ port.Target = DecimalValue(target[1])
          /\ port.Protocol = IF Len(target) = 2 THEN target[2] ELSE <<>>

C16_PortNumbersAsWritten ==
    parseErr = "nil" =>
        \A j \in 1..Len(document.services.entries) :
            LET entry == document.services.entries[j]
            IN (/\ \A i \in (j + 1)..Len(document.services.entries) :
                        document.services.entries[i].name # entry.name
                /\ Present(entry.raw.ports))
               => \A k \in 1..Len(entry.raw.ports.items) :
                    entry.raw.ports.items[k].shape = "string"
                    => PortAsWritten(entry.raw.ports.items[k],
                                     parsed.Services[entry.name].Ports[k])

(***************************************************************************)
(* C17: getSortedServices and getSortedVolumes return every entity once,   *)
(* in this order: of two entities not both of Order 0 the one of smaller   *)
(* Order comes first; of two entities of Order 0 the one named earlier in  *)
(* the declared sequence comes first, and one that is named there comes    *)
(* before one that is not.  Services and volumes follow the same rule.     *)
(***************************************************************************)
\* The position of the first occurrence of name in declared, 0 if none.
FirstOccurrence(declared, name) ==
    IF Occurrences(declared, name) = {} THEN 0
    ELSE CHOOSE k \in Occurrences(declared, name) :
            \A m \in Occurrences(declared, name) : k <= m

\* x must come before y.
MustPrecede(x, y, declared) ==
    IF x.order # 0 \/ y.order # 0 THEN x.order < y.order
    ELSE /\ FirstOccurrence(declared, x.name) # 0
         /\ \/ FirstOccurrence(declared, y.name) = 0
            \/ FirstOccurrence(declared, x.name) < FirstOccurrence(declared, y.name)

InResolverOrder(list, entities, declared) ==
    /\ Len(list) = Cardinality(Keys(entities))
    /\ \A n \in Keys(entities) :
        \E k \in 1..Len(list) : list[k].name = n /\ list[k].order = entities[n].Order
    /\ \A i, j \in 1..Len(list) : i < j => ~MustPrecede(list[j], list[i], declared)

C17_ResolverOrder ==
    /\ sortedServices # NotSorted
        => InResolverOrder(sortedServices, project.Services, project.ServiceOrder)
    /\ sortedVolumes # NotSorted
        => InResolverOrder(sortedVolumes, project.Volumes, project.VolumeOrder)
    /\ (sortedServices # NotSorted /\ sortedVolumes # NotSorted
        /\ Cardinality(SortedServiceLists(project)) = 1)
        => sortedVolumes = sortedServices

\* Three entities sorted: one of Order 0 named in the sequence, one of Order
\* 0 not named, one of nonzero Order.
C17_Witness ==
    /\ sortedServices # NotSorted /\ sortedVolumes # NotSorted
    /\ Len(sortedServices) = 3
    /\ sortedServices[1].order = 0
    /\ FirstOccurrence(project.ServiceOrder, sortedServices[1].name) # 0
    /\ sortedServices[2].order = 0
    /\ FirstOccurrence(project.ServiceOrder, sortedServices[2].name) = 0
    /\ sortedServices[3].order # 0

(***************************************************************************)
(* C18: when the declared sequence names an entity more than once, two     *)
(* entities of Order 0 that are both named in it come in the order of the  *)
(* first occurrences of their names.                                       *)
(***************************************************************************)
HasDuplicates(declared) ==
    \E i, j \in 1..Len(declared) : i < j /\ declared[i] = declared[j]

ByFirstOccurrence(list, declared) ==
    HasDuplicates(declared) =>
        \A i, j \in 1..Len(list) :
            (/\ list[i].order = 0 /\ list[j].order = 0
             /\ FirstOccurrence(declared, list[i].name) # 0
             /\ FirstOccurrence(declared, list[j].name) # 0
             /\ FirstOccurrence(declared, list[i].name)
                    < FirstOccurrence(declared, list[j].name))
            => i < j

C18_FirstOccurrenceWins ==
    /\ sortedServices # NotSorted => ByFirstOccurrence(sortedServices, project.ServiceOrder)
    /\ sortedVolumes # NotSorted => ByFirstOccurrence(sortedVolumes, project.VolumeOrder)

\* The sequence is x, y, x and both x and y are sorted as Order-0 entities.
C18_Witness ==
    /\ sortedServices # NotSorted /\ sortedVolumes # NotSorted
    /\ Len(project.ServiceOrder) = 3
    /\ project.ServiceOrder[1] = project.ServiceOrder[3]
    /\ project.ServiceOrder[1] # project.ServiceOrder[2]
    /\ Len(sortedServices) >= 2
    /\ sortedServices[1].name = project.ServiceOrder[1] /\ sortedServices[1].order = 0
    /\ sortedServices[2].name = project.ServiceOrder[2] /\ sortedServices[2].order = 0

(***************************************************************************)
(* C19: a used volume has X = trunc(mean X of the nodes of the services    *)
(* that mount it) + volumeXOffset and target Y = trunc(mean Y of those     *)
(* nodes); the used volumes are placed in ascending target Y, the first at *)
(* max(target Y, padding), each later one at max(target Y, Y of the one    *)
(* before + columnTopGap).                                                 *)
(***************************************************************************)
RECURSIVE SetSum(_, _, _)
SetSum(S, F(_), sum) ==
    IF S = {} THEN sum
    ELSE LET x == CHOOSE y \in S : TRUE
         IN SetSum(S \ {x}, F, sum + F(x))

Max(a, b) == IF a >= b THEN a ELSE b

\* The services that mount volume v.
Dependents(v) == {s \in ServiceNames : MountsOf(s, v) # {}}

\* The truncated mean of a coordinate of the nodes of the dependents of v.
MeanOfDependents(g, ID(_), v, axis) ==
    LET Coordinate(s) ==
            LET k == CHOOSE i \in 1..Len(g.Nodes) : g.Nodes[i].ID = ID(s)
            IN IF axis = "X" THEN g.Nodes[k].X ELSE g.Nodes[k].Y
    IN Quot(SetSum(Dependents(v), Coordinate, 0), Cardinality(Dependents(v)))

PlacedAtMean(g, ID(_), o) ==
    LET used == UsedVolumeIndexes(g)
        NameOf(k) == CHOOSE v \in VolumeNames : VolumeNodeID(v) = g.Nodes[k].ID
        TargetY(k) == MeanOfDependents(g, ID, NameOf(k), "Y")
    IN \A k \in used :
        LET before == {m \in used : m < k}
            last == CHOOSE m \in before : \A n \in before : n <= m
        IN /\ g.Nodes[k].X = MeanOfDependents(g, ID, NameOf(k), "X") + o.VolumeXOffset
           /\ before = {} => g.Nodes[k].Y = Max(TargetY(k), o.Padding)
           /\ before # {} =>
                /\ TargetY(last) <= TargetY(k)
                /\ g.Nodes[k].Y = Max(TargetY(k), g.Nodes[last].Y + o.ColumnTopGap)

C19_UsedVolumesAtDependentsMean ==
    /\ PipelineReturned => PlacedAtMean(graph, ServiceNodeID, initDefaultOptions(options))
    /\ InlineReturned => PlacedAtMean(graphInline, InlineServiceNodeID,
                                      initDefaultOptions(options))

(***************************************************************************)
(* C20: every declared service has exactly one service node; the service   *)
(* nodes stand in the resolver's order, the i-th (from 0) at               *)
(* Y = padding + i * columnTopGap, all at X = serviceColumnX, so that      *)
(* their Y grows strictly when columnTopGap > 0.                           *)
(***************************************************************************)
ServiceColumn(g, ID(_), type, o) ==
    LET nodes == {k \in 1..Len(g.Nodes) : g.Nodes[k].Type = type}
        Rank(k) == Cardinality({m \in nodes : m < k})
        Item(k) == [name |-> g.Nodes[k].Label,
                    order |-> project.Services[g.Nodes[k].Label].Order]
    IN /\ Cardinality(nodes) = Cardinality(ServiceNames)
       /\ \A s \in ServiceNames :
            /\ Cardinality(NodesWithID(g, ID(s))) = 1
            /\ \A k \in NodesWithID(g, ID(s)) : k \in nodes /\ g.Nodes[k].Label = s
       /\ \A k \in nodes :
            /\ g.Nodes[k].X = 0 + o.ColumnGap
            /\ g.Nodes[k].Y = o.Padding + Rank(k) * o.ColumnTopGap
       /\ \A k, m \in nodes :
            k < m => /\ ~MustPrecede(Item(m), Item(k), project.ServiceOrder)
                     /\ o.ColumnTopGap > 0 => g.Nodes[k].Y < g.Nodes[m].Y

C20_ServiceColumn ==
    /\ PipelineReturned
        => ServiceColumn(graph, ServiceNodeID, "services", initDefaultOptions(options))
    /\ InlineReturned
        => ServiceColumn(graphInline, InlineServiceNodeID, "service",
                         initDefaultOptions(options))

\* Two services under a caller's options with a positive columnTopGap.
C20_Witness ==
    /\ PipelineReturned /\ InlineReturned
    /\ Cardinality(ServiceNames) = 2
    /\ options # NilOptions
    /\ initDefaultOptions(options).ColumnTopGap > 0
    /\ \E k \in 1..Len(graph.Nodes) :
        /\ graph.Nodes[k].Type = "services"
        /\ graph.Nodes[k].Y = options.Padding + options.ColumnTopGap

(***************************************************************************)
(* The two columns as the layout rules give them: the heights of the       *)
(* service and the network column and the Y the network column starts at.  *)
(***************************************************************************)
ServiceColumnHeight(o) == Max(Cardinality(ServiceNames) * o.NodeHeight, o.NodeWidth)

NetworkColumnHeight(o) == Max(Cardinality(NetworkNames) * o.NodeHeight, o.NodeHeight)

NetworkColumnStartY(o) ==
    IF ServiceColumnHeight(o) >= NetworkColumnHeight(o)
    THEN o.Padding + Quot(ServiceColumnHeight(o) - NetworkColumnHeight(o), 2)
    ELSE o.Padding - Quot(NetworkColumnHeight(o) - ServiceColumnHeight(o), 2)

\* The positions in g.Nodes of the nodes of a type, and the rank of one
\* among them.
NodesOfType(g, type) == {k \in 1..Len(g.Nodes) : g.Nodes[k].Type = type}

RankIn(S, k) == Cardinality({m \in S : m < k})

(***************************************************************************)
(* C21: every declared network has exactly one network node; the network   *)
(* nodes stand in ascending order of the network names, the i-th (from 0)  *)
(* at Y = networkColumnStartY + i * 120, whatever nodeHeight and           *)
(* columnTopGap are.                                                       *)
(***************************************************************************)
NetworkColumn(g, o) ==
    LET nodes == NodesOfType(g, "network")
    IN /\ Cardinality(nodes) = Cardinality(NetworkNames)
       /\ \A n \in NetworkNames :
            /\ Cardinality(NodesWithID(g, NetworkNodeID(n))) = 1
            /\ \A k \in NodesWithID(g, NetworkNodeID(n)) :
                k \in nodes /\ g.Nodes[k].Label = n
       /\ \A k, m \in nodes : k < m => StrLess(g.Nodes[k].Label, g.Nodes[m].Label)
       /\ \A k \in nodes : g.Nodes[k].Y = NetworkColumnStartY(o) + RankIn(nodes, k) * 120

C21_NetworkColumn ==
    /\ PipelineReturned => NetworkColumn(graph, initDefaultOptions(options))
    /\ InlineReturned => NetworkColumn(graphInline, initDefaultOptions(options))

\* Two networks under options whose nodeHeight and columnTopGap are not 120.
C21_Witness ==
    /\ PipelineReturned /\ InlineReturned
    /\ Cardinality(NetworkNames) = 2
    /\ options # NilOptions
    /\ options.NodeHeight # 120 /\ options.ColumnTopGap # 120
    /\ \E k, m \in NodesOfType(graph, "network") : graph.Nodes[m].Y = graph.Nodes[k].Y + 120

(***************************************************************************)
(* C22: the network column starts at padding plus half of what the service *)
(* column is taller by, or at padding minus half of what the network       *)
(* column is taller by (halves truncated), the heights being               *)
(* max(serviceCount * nodeHeight, nodeWidth) and                           *)
(* max(networkCount * nodeHeight, nodeHeight); the vertical midpoints of   *)
(* the two columns then differ by one unit at most.                        *)
(***************************************************************************)
Abs(a) == IF a < 0 THEN 0 - a ELSE a

ColumnsCentered(g, o) ==
    LET serviceColumnHeight == Max(Cardinality(Keys(project.Services)) * o.NodeHeight,
                                   o.NodeWidth)
        networkColumnHeight == Max(Cardinality(Keys(project.Networks)) * o.NodeHeight,
                                   o.NodeHeight)
        nodes == NodesOfType(g, "network")
    IN \A k \in nodes :
        RankIn(nodes, k) = 0 =>
            LET networkColumnStartY == g.Nodes[k].Y
            IN /\ serviceColumnHeight >= networkColumnHeight
                    => networkColumnStartY
                        = o.Padding + Quot(serviceColumnHeight - networkColumnHeight, 2)
               /\ serviceColumnHeight < networkColumnHeight
                    => networkColumnStartY
                        = o.Padding - Quot(networkColumnHeight - serviceColumnHeight, 2)
               \* twice the distance of the midpoints
               /\ Abs((2 * networkColumnStartY + networkColumnHeight)
                      - (2 * o.Padding + serviceColumnHeight)) <= 2

C22_ColumnsCentered ==
    /\ PipelineReturned => ColumnsCentered(graph, initDefaultOptions(options))
    /\ InlineReturned => ColumnsCentered(graphInline, initDefaultOptions(options))

\* The network column taller than the service column by an odd amount: two
\* networks of height 91 against the minimal service column of 105.
C22_Witness ==
    /\ PipelineReturned /\ InlineReturned
    /\ options # NilOptions
    /\ Cardinality(NetworkNames) = 2
    /\ 2 * options.NodeHeight - Max(Cardinality(ServiceNames) * options.NodeHeight,
                                    options.NodeWidth) = 77
    /\ \E k \in NodesOfType(graph, "network") : graph.Nodes[k].Y = options.Padding - 38

(***************************************************************************)
(* C23: every service node is at the X of the root node plus columnGap and *)
(* every network node at the X of the root node plus the fixed offset, the *)
(* network column lying strictly between the root node and the service     *)
(* column.                                                                 *)
(***************************************************************************)
\* x := dockerComposeX + 20
NetworkColumnOffset == 20

ColumnsFromRoot(g, o) ==
    \A r \in NodesWithID(g, RootID) :
        LET rootX == g.Nodes[r].X
        IN /\ \A k \in NodesOfType(g, "services") \cup NodesOfType(g, "service") :
                g.Nodes[k].X = rootX + o.ColumnGap
           /\ \A n \in NodesOfType(g, "network") :
                /\ g.Nodes[n].X = rootX + NetworkColumnOffset
                /\ rootX < g.Nodes[n].X
                /\ \A k \in NodesOfType(g, "services") \cup NodesOfType(g, "service") :
                    g.Nodes[n].X < g.Nodes[k].X

C23_ColumnsFromRoot ==
    /\ PipelineReturned => ColumnsFromRoot(graph, initDefaultOptions(options))
    /\ InlineReturned => ColumnsFromRoot(graphInline, initDefaultOptions(options))

(***************************************************************************)
(* C24: the graph has exactly one root node, of id "docker-compose", at    *)
(* Y = (serviceCount * nodeHeight) / 2 - 10 with the division truncated;   *)
(* its properties carry the numbers of services, networks and volumes and  *)
(* the version of the project.                                             *)
(***************************************************************************)
OneRoot(g, o) ==
    /\ Cardinality(NodesWithID(g, RootID)) = 1
    /\ NodesOfType(g, "compose") = NodesWithID(g, RootID)
    /\ \A r \in NodesWithID(g, RootID) :
        /\ g.Nodes[r].Y = Quot(Cardinality(ServiceNames) * o.NodeHeight, 2) - 10
        /\ g.Nodes[r].Properties.services = Cardinality(ServiceNames)
        /\ g.Nodes[r].Properties.networks = Cardinality(NetworkNames)
        /\ g.Nodes[r].Properties.volumes = Cardinality(VolumeNames)
        /\ g.Nodes[r].Properties.version = project.Version

C24_OneRoot ==
    /\ PipelineReturned => OneRoot(graph, initDefaultOptions(options))
    /\ InlineReturned => OneRoot(graphInline, initDefaultOptions(options))

\* One service of the odd height 91, so that the half is truncated, and
\* three different counts.
C24_Witness ==
    /\ PipelineReturned /\ InlineReturned
    /\ options # NilOptions /\ options.NodeHeight = 91
    /\ Cardinality(ServiceNames) = 1
    /\ Cardinality(NetworkNames) = 2
    /\ Cardinality(VolumeNames) = 0
    /\ \E r \in NodesWithID(graph, RootID) : graph.Nodes[r].Y = 35

(***************************************************************************)
(* C25: the unused volumes stand in the resolver's volume order at the X   *)
(* of the root node, the i-th (from 0) of them at                          *)
(* Y = rootY + volumeYOffset + i * nodeGapX; the used volumes do not       *)
(* count in i.                                                             *)
(***************************************************************************)
UnusedVolumeNodesOf(g) ==
    {k \in NodesOfType(g, "volume") : ~g.Nodes[k].Properties.used}

UnusedUnderRoot(g, o) ==
    LET unused == UnusedVolumeNodesOf(g)
        Item(k) == [name |-> g.Nodes[k].Label,
                    order |-> project.Volumes[g.Nodes[k].Label].Order]
    IN /\ {g.Nodes[k].Label : k \in unused} = {v \in VolumeNames : ~IsMounted(v)}
       /\ \A r \in NodesWithID(g, RootID), k \in unused :
            /\ g.Nodes[k].X = g.Nodes[r].X
            /\ g.Nodes[k].Y = g.Nodes[r].Y + o.VolumeYOffset + RankIn(unused, k) * o.NodeGapX
       /\ \A k, m \in unused :
            k < m => ~MustPrecede(Item(m), Item(k), project.VolumeOrder)

C25_UnusedVolumesUnderRoot ==
    /\ PipelineReturned => UnusedUnderRoot(graph, initDefaultOptions(options))
    /\ InlineReturned => UnusedUnderRoot(graphInline, initDefaultOptions(options))

\* Two unused volumes under a caller's options, a step of nodeGapX apart.
C25_Witness ==
    /\ PipelineReturned /\ InlineReturned
    /\ options # NilOptions
    /\ \E k, m \in UnusedVolumeNodesOf(graph) :
        graph.Nodes[m].Y = graph.Nodes[k].Y + options.NodeGapX /\ options.NodeGapX > 0

(***************************************************************************)
(* C26: the viewport is at X = (least X of the nodes) - padding and        *)
(* Y = (least Y of the nodes) - padding, over all the nodes of the graph   *)
(* (root, networks, services, used and unused volumes), with Zoom 0.8; of  *)
(* an empty node list it is at X = 0 and Y = 0.                            *)
(***************************************************************************)
Least(S) == CHOOSE x \in S : \A y \in S : x <= y

ViewportOf(nodes, view, o) ==
    /\ view.Zoom = 8
    /\ Len(nodes) = 0 => view.X = 0 /\ view.Y = 0
    /\ Len(nodes) > 0 =>
        /\ view.X = Least({nodes[k].X : k \in 1..Len(nodes)}) - o.Padding
        /\ view.Y = Least({nodes[k].Y : k \in 1..Len(nodes)}) - o.Padding

\* Every declared entity has its node in the list the viewport is taken of.
AllNodesListed(g, ID(_)) ==
    NodeIDs(g) = {RootID} \cup {NetworkNodeID(n) : n \in NetworkNames}
                 \cup {ID(n) : n \in ServiceNames}
                 \cup {VolumeNodeID(v) : v \in VolumeNames}

KeysWritten(section) ==
    IF section.shape = "mapping"
    THEN [j \in 1..Len(section.entries) |-> section.entries[j].name]
    ELSE <<>>

OrderIsPosition(entities, declared) ==
    /\ Len(declared) = Cardinality(Keys(entities))
    /\ \A n \in Keys(entities) :
        /\ entities[n].Order # 0
        /\ Occurrences(declared, n) = {entities[n].Order}

C27_OrderFromDocument ==
    (parseErr = "nil") =>
        /\ parsed.ServiceOrder = KeysWritten(document.services)
        /\ parsed.VolumeOrder = KeysWritten(document.volumes)
        /\ OrderIsPosition(parsed.Services, parsed.ServiceOrder)
        /\ OrderIsPosition(parsed.Volumes, parsed.VolumeOrder)

(***************************************************************************)
(* C28: no two edges of a returned graph have the same id, whatever the    *)
(* project: a network listed twice by a service, names that concatenate    *)
(* alike, and the separately numbered edge kinds included.                 *)
(***************************************************************************)
EdgeIDsUnique(g) ==
    \A i, j \in 1..Len(g.Edges) : g.Edges[i].ID = g.Edges[j].ID => i = j

C28_EdgeIDsUnique ==
    /\ PipelineReturned => EdgeIDsUnique(graph)
    /\ InlineReturned => EdgeIDsUnique(graphInline)

(***************************************************************************)
(* C29: the option LastY has no influence on the result: the graph a run   *)
(* returned is one the run returns as well, nodes, edges and viewport,     *)
(* under options that differ in LastY only.                                *)
(***************************************************************************)
LastYValues == {-1000, 0, 500}

WithLastY(opts, y) == [initDefaultOptions(opts) EXCEPT !.LastY = y]

ReturnedUnderLastY(y) ==
    /\ PipelineReturned =>
        LET S == SortedServiceLists(project)
        IN \E nl \in SortedNetworkLists(project), vl \in SortedVolumeLists(project),
              s1 \in S, s2 \in S, s3 \in S, s4 \in S, s5 \in S :
                graph = Pipeline(project, WithLastY(options, y), nl, s1, s2, s3, s4, s5, vl)
    /\ InlineReturned =>
        \E nl \in SortedNetworkLists(project), vl \in SortedVolumeLists(project),
           sl \in SortedServiceLists(project) :
            graphInline = Inline(project, WithLastY(options, y), nl, sl, vl)

C29_LastYWithoutInfluence == \A y \in LastYValues : ReturnedUnderLastY(y)

\* A used volume placed above the LastY of the options, and above what the
\* default LastY would allow if it were the bound.
C29_Witness ==
    /\ PipelineReturned /\ InlineReturned
    /\ options # NilOptions /\ options.LastY = 500
    /\ \E k \in NodesOfType(graph, "volume") :
        graph.Nodes[k].Properties.used /\ graph.Nodes[k].Y < 500
    /\ \E k \in NodesOfType(graphInline, "volume") :
        graphInline.Nodes[k].Properties.used /\ graphInline.Nodes[k].Y < 500

(***************************************************************************)
(* C30: the pipeline of part_001 and the single function of part_000       *)
(* return the same node positions, the same viewport and the same set of   *)
(* edges as (source, target, kind) triples, a service id "service-<name>"  *)
(* of the one read as "services-<name>" of the other.                      *)
(***************************************************************************)
\* The id of the pipeline for an id of the single function.
PipelineID(id) ==
    IF \E n \in Names : id = InlineServiceNodeID(n)
    THEN ServiceNodeID(CHOOSE n \in Names : id = InlineServiceNodeID(n))
    ELSE id

EdgeKind(e) == [Type |-> e.Type, Animated |-> e.Animated, Dash |-> e.Dash]

Positions(g, Rename(_)) ==
    {[ID |-> Rename(g.Nodes[k].ID), X |-> g.Nodes[k].X, Y |-> g.Nodes[k].Y] :
        k \in 1..Len(g.Nodes)}

EdgeTriples(g, Rename(_)) ==
    {[Source |-> Rename(g.Edges[k].Source), Target |-> Rename(g.Edges[k].Target),
      Kind |-> EdgeKind(g.Edges[k])] : k \in 1..Len(g.Edges)}

SameID(id) == id

C30_PipelineEqualsSingleFunction ==
    (PipelineReturned /\ InlineReturned) =>
        /\ Positions(graphInline, PipelineID) = Positions(graph, SameID)
        /\ graphInline.Viewport = graph.Viewport
        /\ EdgeTriples(graphInline, PipelineID) = EdgeTriples(graph, SameID)

====
